---- MODULE Spec2Model ----
(***************************************************************************)
(* Verification model of OpenImageIO's ColorConfig                         *)
(* (src/libOpenImageIO/color_ocio.cpp): the processor cache and its key,   *)
(* the create*Transform factories, the colour space registry with          *)
(* resolve/equivalent, and the interop-id / CICP table.                    *)
(*                                                                         *)
(* The specifications of the module:                                      *)
(*   SpecKey    two requests are turned into ColorProcCacheKey values      *)
(*   Spec       threads issue create* calls against one ColorConfig        *)
(*   SpecNames  queries (resolve, equivalent, getNumColorSpaces,           *)
(*              get_cicp) against a constructed ColorConfig                *)
(*   SpecImage  one ImageBufAlgo::colorconvert call on a pair of buffers   *)
(*   SpecError  create* calls interleaved with geterror and                *)
(*              createMatrixTransform                                      *)
(*   SpecRegistry  the registry built step by step, then examined and      *)
(*              queried with equivalent                                    *)
(*   SpecInit   Impl::init(filename), statement by statement               *)
(*   SpecEntry  one call of a build-then-apply entry point of ImageBufAlgo *)
(*   SpecExamine  threads call Impl::flags(name), which examines an entry  *)
(*              under m_mutex                                              *)
(***************************************************************************)
EXTENDS Integers, Sequences, FiniteSets, TLC

VARIABLES
    \* ---- ColorConfig::Impl state --------------------------------------
    config_,               \* TRUE iff Impl::config_ is non-null
    colorspaces,           \* std::vector<CSInfo>
    aliases,               \* srgb_alias, lin_srgb_alias, ACEScg_alias, ...
    identifies,            \* the engine can identify built-in equivalents
    colorprocmap,          \* ColorProcessorMap: key -> handle
    colorprocs_requested,  \* atomic_int
    colorprocs_created,    \* atomic_int
    m_error,               \* sticky error message
    m_mutex,               \* spin_rw_mutex: the thread holding it for writing
    \* ---- the external engine, as a test double ------------------------
    compiles,              \* number of engine compilations so far
    nextproc,              \* identity of the next processor object
    \* ---- one create* call per thread ----------------------------------
    pc,                    \* position of each thread inside its call
    req,                   \* the request a thread is serving
    key,                   \* its ColorProcCacheKey
    handle,                \* its local ColorProcessorHandle (0 = empty)
    outcome,               \* what the engine did for this call
    \* ---- history (observation only) -----------------------------------
    budget,                \* calls that may still be started
    installed,             \* key -> handle installed first under that key
    last,                  \* per thread: the call that returned last
    prev,                  \* per thread: the call that returned before it
    \* ---- SpecKey -------------------------------------------------------
    rq1, rq2, k1, k2,
    \* ---- SpecNames -----------------------------------------------------
    op,                    \* the last query and what it returned
    \* ---- SpecImage: one ImageBufAlgo::colorconvert call ---------------
    A,                     \* pixels of the source ImageBuf
    R,                     \* pixels of the destination ImageBuf
    call,                  \* arguments of the call, and what it did
    \* ---- history of examine (observation only) -----------------------
    passes                 \* per entry: times the classification passes ran

vars == << config_, colorspaces, aliases, identifies, colorprocmap, colorprocs_requested,
           colorprocs_created, m_error, compiles, nextproc, pc, req, key,
           handle, outcome, budget, installed, last, prev,
           rq1, rq2, k1, k2, op, A, R, call, m_mutex, passes >>

cacheVars == << colorprocmap, colorprocs_requested, colorprocs_created,
                m_error, compiles, nextproc, pc, req, key, handle, outcome,
                budget, installed, last, prev >>
keyVars   == << rq1, rq2, k1, k2 >>
nameVars  == << colorspaces, aliases, identifies, op >>
imageVars == << A, R, call >>
lockVars  == << m_mutex, passes >>

None == "<none>"

-----------------------------------------------------------------------------
(* ustring and its hash.  The strings requests are built from, and the     *)
(* value ustring::hash() gives each.  The empty ustring hashes to 0; the   *)
(* other values stand for distinct 64-bit hashes, chosen small enough that *)
(* the weighted sum below never wraps, and as distinct base-4 digits so    *)
(* that a sum of up to three of them identifies its terms.                 *)

Ustrings == {"", "a", "b", "x"}

ustring_hash(s) ==
    CASE s = ""  -> 0
      [] s = "a" -> 1
      [] s = "b" -> 4
      [] s = "x" -> 16
      [] OTHER   -> 64

(* ColorProcCacheKey::ColorProcCacheKey.  The member initializer list has  *)
(* no entry for `display` and `view`: both members stay default-           *)
(* constructed (empty), while the hash is computed from the parameters.    *)
ColorProcCacheKey(in, out, ckey, cval, looks, display, view, file, nt, inv) ==
    [ inputColorSpace  |-> in,
      outputColorSpace |-> out,
      context_key      |-> ckey,
      context_value    |-> cval,
      looks            |-> looks,
      display          |-> "",
      view             |-> "",
      file             |-> file,
      namedtransform   |-> nt,
      inverse          |-> inv,
      hash |-> ustring_hash(in) + 14033 * ustring_hash(out)
               + 823 * ustring_hash(ckey) + 28411 * ustring_hash(cval)
               + 1741 * (ustring_hash(looks) + ustring_hash(display)
                         + ustring_hash(view) + ustring_hash(file)
                         + ustring_hash(nt))
               + (IF inv THEN 6421 ELSE 0) ]

(* operator== of ColorProcCacheKey: std::tie over hash and the ten members *)
KeyEq(a, b) ==
    /\ a.hash = b.hash
    /\ a.inputColorSpace = b.inputColorSpace
    /\ a.outputColorSpace = b.outputColorSpace
    /\ a.context_key = b.context_key
    /\ a.context_value = b.context_value
    /\ a.looks = b.looks
    /\ a.display = b.display
    /\ a.view = b.view
    /\ a.file = b.file
    /\ a.namedtransform = b.namedtransform
    /\ a.inverse = b.inverse

-----------------------------------------------------------------------------
(* Requests: one record shape for the five cached request kinds.           *)

Kinds == {"color", "look", "display", "file", "named"}

Request(kind, in, out, ckey, cval, looks, display, view, name, inverse) ==
    [ kind |-> kind, in |-> in, out |-> out, ckey |-> ckey, cval |-> cval,
      looks |-> looks, display |-> display, view |-> view, name |-> name,
      inverse |-> inverse ]

ColorRequest(in, out, ckey, cval) ==
    Request("color", in, out, ckey, cval, "", "", "", "", FALSE)
LookRequest(looks, in, out, inverse, ckey, cval) ==
    Request("look", in, out, ckey, cval, looks, "", "", "", inverse)
DisplayRequest(display, view, in, looks, inverse, ckey, cval) ==
    Request("display", in, "", ckey, cval, looks, display, view, "", inverse)
FileRequest(name, inverse) ==
    Request("file", "", "", "", "", "", "", "", name, inverse)
NamedRequest(name, inverse, ckey, cval) ==
    Request("named", "", "", ckey, cval, "", "", "", name, inverse)

(* ColorConfig::getDefaultDisplayName / getDefaultViewName: the engine's   *)
(* defaults with a configuration, nullptr (an empty ustring) without.      *)
getDefaultDisplayName(cfg) == IF cfg THEN "a" ELSE ""
getDefaultViewName(cfg)    == IF cfg THEN "b" ELSE ""

(* The ten arguments each create* function passes to the ColorProcCacheKey *)
(* constructor when it builds its prockey: (in, out, context key, context  *)
(* value, looks, display, view, file, namedtransform, inverse).            *)
ColorArgs(r) ==
    << r.in, r.out, r.ckey, r.cval, "", "", "", "", "", FALSE >>

LookArgs(r) ==
    << r.in, r.out, r.ckey, r.cval, r.looks, "", "", "", "", r.inverse >>

(* createDisplayTransform first replaces an empty or "default" display or  *)
(* view by the configuration's default.                                    *)
DisplayArgs(r, cfg) ==
    LET display == IF r.display \in {"", "default"}
                   THEN getDefaultDisplayName(cfg) ELSE r.display
        view    == IF r.view \in {"", "default"}
                   THEN getDefaultViewName(cfg) ELSE r.view
    IN  << r.in, "", r.ckey, r.cval, r.looks, display, view, "", "",
           r.inverse >>

(* FileArgs as it would be with the path in the file position.            *)
FileArgs_fileslot(r) ==
    << "", "", "", "", "", "", "", r.name, "", r.inverse >>

(* createFileTransform passes `name` in the namedtransform position and    *)
(* leaves the file position empty.                                         *)
FileArgs(r) ==
    << "", "", "", "", "", "", "", "", r.name, r.inverse >>

NamedArgs(r) ==
    << "", "", r.ckey, r.cval, "", "", "", "", r.name, r.inverse >>

ArgsOf(r, cfg) ==
    CASE r.kind = "color"   -> ColorArgs(r)
      [] r.kind = "look"    -> LookArgs(r)
      [] r.kind = "display" -> DisplayArgs(r, cfg)
      [] r.kind = "file"    -> FileArgs(r)
      [] r.kind = "named"   -> NamedArgs(r)

MakeKey(a) ==
    ColorProcCacheKey(a[1], a[2], a[3], a[4], a[5], a[6], a[7], a[8], a[9],
                      a[10])

(* The prockey of a request.                                               *)
KeyOf(r, cfg) == MakeKey(ArgsOf(r, cfg))

-----------------------------------------------------------------------------
(* SpecKey: two requests of any kinds are turned into keys.                *)

KeyStrings == {"", "a", "b"}

KeyRequests ==
       { ColorRequest(i, o, "", "") : i \in {"a"}, o \in {"a", "b"} }
  \cup { LookRequest(l, "a", o, inv, "", "") :
             l \in {"", "x"}, o \in {"a", "b"}, inv \in BOOLEAN }
  \cup { DisplayRequest(d, v, "a", l, FALSE, "", "") :
             d \in KeyStrings, v \in KeyStrings, l \in {"", "x"} }
  \cup { FileRequest(n, inv) : n \in {"a", "x"}, inv \in BOOLEAN }
  \cup { NamedRequest(n, inv, "", "") : n \in {"a", "x"}, inv \in BOOLEAN }

NoKey == [ hash |-> -1 ]


KeyInit ==
    /\ rq1 \in KeyRequests
    /\ rq2 \in KeyRequests
    /\ k1 = NoKey
    /\ k2 = NoKey

(* Both requests build their prockey, as the first statement of each       *)
(* create* function does.                                                  *)
BuildKeys ==
    /\ k1 = NoKey
    /\ k1' = KeyOf(rq1, config_)
    /\ k2' = KeyOf(rq2, config_)
    /\ UNCHANGED << rq1, rq2, config_ >>
    /\ UNCHANGED cacheVars
    /\ UNCHANGED imageVars
    /\ UNCHANGED lockVars
    /\ UNCHANGED nameVars

-----------------------------------------------------------------------------
(* The processor cache: ColorConfig::Impl::findproc and addproc.           *)

EmptyHandle == 0

EmptyMap == [ k \in {} |-> EmptyHandle ]

MapFind(m, k) == { e \in DOMAIN m : KeyEq(e, k) }

(* A faulty findproc: every lookup misses.                                 *)
findproc_miss(m, k) == EmptyHandle

(* findproc: the handle stored under an equal key, else an empty handle    *)
findproc(m, k) ==
    IF MapFind(m, k) = {} THEN EmptyHandle
    ELSE m[CHOOSE e \in MapFind(m, k) : TRUE]

(* Faulty variants of addproc: overwrite, and store an empty handle.      *)
addproc_overwrite(m, k, h) ==
    IF h = EmptyHandle
    THEN [ map |-> m, handle |-> h, created |-> 0 ]
    ELSE [ map |-> [ e \in (DOMAIN m \ MapFind(m, k)) \cup {k} |->
                        IF e = k THEN h ELSE m[e] ],
           handle |-> h,
           created |-> IF MapFind(m, k) = {} THEN 1 ELSE 0 ]

addproc_cache_empty(m, k, h) ==
    IF MapFind(m, k) = {}
    THEN [ map |-> [ e \in DOMAIN m \cup {k} |->
                        IF e = k THEN h ELSE m[e] ],
           handle |-> h, created |-> 1 ]
    ELSE [ map |-> m, handle |-> findproc(m, k), created |-> 0 ]

(* addproc: an empty handle is returned as is and nothing is stored; a     *)
(* non-empty one is installed unless an equal key is already present, in   *)
(* which case the stored handle is returned instead.                       *)
addproc(m, k, h) ==
    IF h = EmptyHandle
    THEN [ map |-> m, handle |-> h, created |-> 0 ]
    ELSE IF MapFind(m, k) = {}
         THEN [ map |-> [ e \in DOMAIN m \cup {k} |->
                             IF e = k THEN h ELSE m[e] ],
                handle |-> h, created |-> 1 ]
         ELSE [ map |-> m, handle |-> findproc(m, k), created |-> 0 ]


-----------------------------------------------------------------------------
(* Spec: threads call the create* functions of one ColorConfig.            *)

(* The threads are the domain of pc: one caller in Spec, two in SpecRace.  *)
Threads == DOMAIN pc

MaxCalls == 4

RaceCalls == 2

(* Messages of the engine's exceptions (OCIO::Exception::what()), and the  *)
(* fixed text stored for an exception of any other type.                   *)
EngineMsgs == {"e1", "e2"}
UnknownMsg == "An unknown error occurred in OpenColorIO, getProcessor"

(* Messages Impl::init may leave in the error slot during construction.    *)
InitErrors == {"", "Error reading OCIO config"}

(* atomic_int members without an initializer: zero, or whatever the        *)
(* storage held.                                                           *)
UninitInts == {0, 7}

CacheRequests ==
    { ColorRequest("a", "b", "", ""),
      LookRequest("x", "a", "b", FALSE, "", ""),
      DisplayRequest("a", "b", "a", "", FALSE, "", ""),
      FileRequest("x", FALSE),
      NamedRequest("x", FALSE, "", "") }

NoCall == [ kind |-> None ]

NoCrash == \A t \in Threads : pc[t] # "crashed"

(* What a finished call leaves for observation.                            *)
CallRecord(t, ret, didcompile, what) ==
    [ kind |-> req[t].kind, req |-> req[t], key |-> key[t], ret |-> ret,
      compiled |-> didcompile, outcome |-> what, err |-> m_error ]

(* The guard each create* function puts before its engine request:         *)
(* config_ && !disable_ocio for conversions, looks and named transforms    *)
(* (inventory() resets config_ whenever disable_ocio is set), config_ or   *)
(* the never-assigned ocio_current_config for file transforms, and none    *)
(* at all for display transforms.                                          *)
EngineGuard(kind, cfg) ==
    CASE kind = "display" -> TRUE
      [] OTHER            -> cfg

(* What the engine can answer to a compilation request.                    *)
EngineOutcomes(kind) ==
    {"ok", "unknown"} \cup EngineMsgs
      \cup (IF kind = "color" THEN {"noop"} ELSE {})

(* The error slot after the try block of a create* function: clear_error() *)
(* after a successful getProcessor, error(e.what()) for an                  *)
(* OCIO::Exception (directly, or through pending_error in                   *)
(* createColorProcessor), the fixed message for anything else.             *)
ErrorAfterCompile_keep(o, err) ==
    CASE o \in {"ok", "noop"} -> ""
      [] o = "unknown"        -> err
      [] OTHER                -> err

ErrorAfterCompile(o, err) ==
    CASE o \in {"ok", "noop"} -> ""
      [] o = "unknown"        -> UnknownMsg
      [] OTHER                -> o

(* First statements of every create* function: build prockey, findproc,    *)
(* return the cached handle if there is one.                               *)
Call(t, r) ==
    /\ NoCrash
    /\ pc[t] = "idle"
    /\ budget > 0
    /\ budget' = budget - 1
    /\ colorprocs_requested' = colorprocs_requested + 1
    /\ LET k == KeyOf(r, config_)
           h == findproc(colorprocmap, k)
       IN  IF h # EmptyHandle
           THEN /\ last' = [ last EXCEPT ![t] =
                               [ kind |-> r.kind, req |-> r, key |-> k,
                                 ret |-> h, compiled |-> FALSE,
                                 outcome |-> "hit", err |-> m_error ] ]
                /\ prev' = [ prev EXCEPT ![t] = last[t] ]
                /\ UNCHANGED << pc, req, key, handle >>
           ELSE /\ pc' = [ pc EXCEPT ![t] = "compile" ]
                /\ req' = [ req EXCEPT ![t] = r ]
                /\ key' = [ key EXCEPT ![t] = k ]
                /\ handle' = [ handle EXCEPT ![t] = EmptyHandle ]
                /\ UNCHANGED << last, prev >>
    /\ UNCHANGED << colorprocmap, colorprocs_created, m_error, compiles,
                    nextproc, outcome, installed, config_ >>
    /\ UNCHANGED keyVars
    /\ UNCHANGED imageVars
    /\ UNCHANGED lockVars
    /\ UNCHANGED nameVars

(* The engine is not consulted: no configuration.  The handle stays empty  *)
(* and the error slot is not written.                                      *)
NoEngine(t) ==
    /\ NoCrash
    /\ pc[t] = "compile"
    /\ ~EngineGuard(req[t].kind, config_)
    /\ pc' = [ pc EXCEPT ![t] = "add" ]
    /\ outcome' = [ outcome EXCEPT ![t] = "noengine" ]
    /\ UNCHANGED << colorprocmap, colorprocs_requested, colorprocs_created,
                    m_error, compiles, nextproc, req, key, handle, budget,
                    installed, last, prev, config_ >>
    /\ UNCHANGED keyVars
    /\ UNCHANGED imageVars
    /\ UNCHANGED lockVars
    /\ UNCHANGED nameVars

(* createDisplayTransform without a configuration: config->getColorSpace   *)
(* is called through a null pointer.                                       *)
NullConfig(t) ==
    /\ NoCrash
    /\ pc[t] = "compile"
    /\ EngineGuard(req[t].kind, config_)
    /\ ~config_
    /\ pc' = [ pc EXCEPT ![t] = "crashed" ]
    /\ outcome' = [ outcome EXCEPT ![t] = "nullderef" ]
    /\ UNCHANGED << colorprocmap, colorprocs_requested, colorprocs_created,
                    m_error, compiles, nextproc, req, key, handle, budget,
                    installed, last, prev, config_ >>
    /\ UNCHANGED keyVars
    /\ UNCHANGED imageVars
    /\ UNCHANGED lockVars
    /\ UNCHANGED nameVars

(* The engine request and the try/catch around it.                         *)
Compile(t) ==
    /\ NoCrash
    /\ pc[t] = "compile"
    /\ EngineGuard(req[t].kind, config_)
    /\ config_
    /\ \E o \in EngineOutcomes(req[t].kind) :
          /\ outcome' = [ outcome EXCEPT ![t] = o ]
          /\ m_error' = ErrorAfterCompile(o, m_error)
          /\ IF o \in {"ok", "noop"}
             THEN /\ handle' = [ handle EXCEPT ![t] = nextproc ]
                  /\ nextproc' = nextproc + 1
             ELSE UNCHANGED << handle, nextproc >>
    /\ compiles' = compiles + 1
    /\ pc' = [ pc EXCEPT ![t] = "add" ]
    /\ UNCHANGED << colorprocmap, colorprocs_requested, colorprocs_created,
                    req, key, budget, installed, last, prev, config_ >>
    /\ UNCHANGED keyVars
    /\ UNCHANGED imageVars
    /\ UNCHANGED lockVars
    /\ UNCHANGED nameVars

(* return getImpl()->addproc(prockey, handle);                             *)
AddProc(t) ==
    /\ NoCrash
    /\ pc[t] = "add"
    /\ LET r == addproc(colorprocmap, key[t], handle[t])
       IN  /\ colorprocmap' = r.map
           /\ colorprocs_created' = colorprocs_created + r.created
           /\ installed' =
                 IF r.created = 1 /\ key[t] \notin DOMAIN installed
                 THEN [ e \in DOMAIN installed \cup {key[t]} |->
                          IF e = key[t] THEN handle[t] ELSE installed[e] ]
                 ELSE installed
           /\ last' = [ last EXCEPT ![t] =
                          CallRecord(t, r.handle, outcome[t] # "noengine",
                                     outcome[t]) ]
           /\ prev' = [ prev EXCEPT ![t] = last[t] ]
    /\ pc' = [ pc EXCEPT ![t] = "idle" ]
    /\ req' = [ req EXCEPT ![t] = NoCall ]
    /\ key' = [ key EXCEPT ![t] = NoKey ]
    /\ handle' = [ handle EXCEPT ![t] = EmptyHandle ]
    /\ outcome' = [ outcome EXCEPT ![t] = None ]
    /\ UNCHANGED << colorprocs_requested, m_error, compiles, nextproc, budget,
                    config_ >>
    /\ UNCHANGED keyVars
    /\ UNCHANGED imageVars
    /\ UNCHANGED lockVars
    /\ UNCHANGED nameVars

CacheInit(threads, n) ==
    /\ colorprocmap = EmptyMap
    /\ colorprocs_requested \in UninitInts
    /\ colorprocs_created \in UninitInts
    /\ m_error \in InitErrors
    /\ compiles = 0
    /\ nextproc = 1
    /\ pc = [ t \in threads |-> "idle" ]
    /\ req = [ t \in threads |-> NoCall ]
    /\ key = [ t \in threads |-> NoKey ]
    /\ handle = [ t \in threads |-> EmptyHandle ]
    /\ outcome = [ t \in threads |-> None ]
    /\ budget = n
    /\ installed = EmptyMap
    /\ last = [ t \in threads |-> NoCall ]
    /\ prev = [ t \in threads |-> NoCall ]

CacheIdle ==
    /\ colorprocmap = EmptyMap
    /\ colorprocs_requested = 0
    /\ colorprocs_created = 0
    /\ m_error = ""
    /\ compiles = 0
    /\ nextproc = 1
    /\ pc = << >>
    /\ req = << >>
    /\ key = << >>
    /\ handle = << >>
    /\ outcome = << >>
    /\ budget = 0
    /\ installed = EmptyMap
    /\ last = << >>
    /\ prev = << >>

KeyIdle ==
    /\ rq1 = NoCall
    /\ rq2 = NoCall
    /\ k1 = NoKey
    /\ k2 = NoKey

NamesIdle ==
    /\ colorspaces = << >>
    /\ aliases = None
    /\ identifies = FALSE
    /\ op = None

ImageIdle ==
    /\ A = << >>
    /\ R = << >>
    /\ call = NoCall

(* Nobody holds m_mutex.                                                   *)
NoHolder == "<free>"

LockIdle ==
    /\ m_mutex = NoHolder
    /\ passes = << >>

Init ==
    /\ config_ \in BOOLEAN
    /\ CacheInit({"t1"}, MaxCalls)
    /\ KeyIdle
    /\ NamesIdle
    /\ ImageIdle
    /\ LockIdle

Next ==
    \/ \E t \in Threads, r \in CacheRequests : Call(t, r)
    \/ \E t \in Threads : NoEngine(t)
    \/ \E t \in Threads : NullConfig(t)
    \/ \E t \in Threads : Compile(t)
    \/ \E t \in Threads : AddProc(t)

Spec == Init /\ [][Next]_vars

RaceInit ==
    /\ config_ \in BOOLEAN
    /\ CacheInit({"t1", "t2"}, RaceCalls)
    /\ KeyIdle
    /\ NamesIdle
    /\ ImageIdle
    /\ LockIdle

SpecRace == RaceInit /\ [][Next]_vars

KeyNext == BuildKeys

SpecKeyInit ==
    /\ config_ \in BOOLEAN
    /\ KeyInit
    /\ CacheIdle
    /\ NamesIdle
    /\ ImageIdle
    /\ LockIdle

SpecKey == SpecKeyInit /\ [][KeyNext]_vars


-----------------------------------------------------------------------------
(* The colour space registry: CSInfo, add, find, classify_by_name,         *)
(* inventory, identify_builtin_equivalents.                                *)

(* Strutil::lower on the names that occur; every other name used here is   *)
(* already lower case.                                                     *)
Lower(s) ==
    CASE s = "sRGB"           -> "srgb"
      [] s = "RGB"            -> "rgb"
      [] s = "Rec709"         -> "rec709"
      [] s = "ACEScg"         -> "acescg"
      [] s = "Raw"            -> "raw"
      [] s = "sRGB - Texture" -> "srgb - texture"
      [] OTHER                -> s

iequals(a, b) == Lower(a) = Lower(b)

(* CSInfo::Flags as a set of bits.                                         *)
is_known == {"is_srgb", "is_lin_srgb", "is_ACEScg", "is_Rec709"}

CSInfo(name, index, flags) ==
    [ name |-> name, index |-> index, m_flags |-> flags, examined |-> FALSE,
      canonical |-> "" ]

NoAliases ==
    [ scene_linear_alias |-> "", lin_srgb_alias |-> "", srgb_alias |-> "",
      ACEScg_alias |-> "", Rec709_alias |-> "" ]

(* A registry state: the vector of entries and the five alias strings.     *)
Registry(css, al) == [ cs |-> css, al |-> al ]

(* A faulty setflag that stores the new bits in place of the old ones.     *)
setflag_assign(rg, i, flagval, alias) ==
    Registry([ rg.cs EXCEPT ![i].m_flags = flagval ],
             IF rg.al[alias] = ""
             THEN [ rg.al EXCEPT ![alias] = rg.cs[i].name ]
             ELSE rg.al)

(* CSInfo::setflag(flagval, alias) on entry i.                             *)
setflag(rg, i, flagval, alias) ==
    Registry([ rg.cs EXCEPT ![i].m_flags = @ \cup flagval ],
             IF rg.al[alias] = ""
             THEN [ rg.al EXCEPT ![alias] = rg.cs[i].name ]
             ELSE rg.al)

(* The canonical label of a flag set, first matching bit wins.             *)
CanonicalOf(flags, old) ==
    IF "is_srgb" \in flags THEN "srgb_rec709_scene"
    ELSE IF "is_lin_srgb" \in flags THEN "lin_rec709_scene"
    ELSE IF "is_ACEScg" \in flags THEN "lin_ap1_scene"
    ELSE IF "is_Rec709" \in flags THEN "Rec709"
    ELSE old

(* ColorConfig::Impl::classify_by_name on entry i.                         *)
classify_by_name(rg, i) ==
    LET n  == Lower(rg.cs[i].name)
        r1 == IF n \in {"srgb_rec709_scene", "srgb_tx", "srgb_texture",
                        "srgb texture", "srgb - texture", "srgb"}
              THEN setflag(rg, i, {"is_srgb"}, "srgb_alias")
              ELSE IF n \in {"lin_rec709_scene", "lin_rec709",
                             "linear rec.709 (srgb)", "lin_srgb", "linear"}
              THEN setflag(rg, i, {"is_lin_srgb", "is_linear_response"},
                           "lin_srgb_alias")
              ELSE IF n \in {"acescg", "lin_ap1_scene", "lin_ap1"}
              THEN setflag(rg, i, {"is_ACEScg", "is_linear_response"},
                           "ACEScg_alias")
              ELSE IF n = "rec709"
              THEN setflag(rg, i, {"is_Rec709"}, "Rec709_alias")
              ELSE rg
        c  == CanonicalOf(r1.cs[i].m_flags, r1.cs[i].canonical)
    IN  Registry([ r1.cs EXCEPT ![i].canonical = c,
                                ![i].examined = (@ \/ c # "") ],
                 r1.al)

(* for (auto&& cs : colorspaces) classify_by_name(cs);                     *)
RECURSIVE ClassifyAll(_, _)
ClassifyAll(rg, i) ==
    IF i > Len(rg.cs) THEN rg ELSE ClassifyAll(classify_by_name(rg, i), i + 1)

(* ColorConfig::Impl::find: index of the first entry with that exact name, *)
(* 0 for nullptr.                                                          *)
find(css, name) ==
    IF \E i \in 1..Len(css) : css[i].name = name
    THEN CHOOSE i \in 1..Len(css) :
            /\ css[i].name = name
            /\ \A j \in 1..(i - 1) : css[j].name # name
    ELSE 0

-----------------------------------------------------------------------------
(* The external engine's documents, as a test double.                      *)

(* The live configuration a ColorConfig can be built from: a few spaces    *)
(* with aliases and an is-data flag, and its roles.                        *)
LiveSpaces ==
    << [ name |-> "ACEScg",         aliases |-> {"lin_ap1"}, isdata |-> FALSE ],
       [ name |-> "sRGB - Texture", aliases |-> {"srgb_tx"}, isdata |-> FALSE ],
       [ name |-> "acme_lin",       aliases |-> {},          isdata |-> FALSE ],
       [ name |-> "srgblnf",        aliases |-> {},          isdata |-> FALSE ],
       [ name |-> "Raw",            aliases |-> {},          isdata |-> TRUE ] >>

LiveRoles == [ scene_linear |-> "ACEScg", default |-> "Raw" ]

(* A configuration that defines nothing but a data space.                  *)
RawOnlySpaces ==
    << [ name |-> "Raw", aliases |-> {}, isdata |-> TRUE ] >>

(* The interop identities configuration (kInteropIdentitiesConfig): the    *)
(* part of its colour spaces and roles that the names used here reach.     *)
InteropSpaces ==
    << [ name |-> "lin_ap0_scene",        aliases |-> {} ],
       [ name |-> "lin_ap1_scene",        aliases |-> {} ],
       [ name |-> "lin_rec709_scene",     aliases |-> {} ],
       [ name |-> "srgb_rec709_scene",    aliases |-> {"sRGB - Texture"} ],
       [ name |-> "g22_adobergb_scene",   aliases |-> {} ],
       [ name |-> "srgb_rec709_display",  aliases |-> {} ],
       [ name |-> "g24_rec709_display",   aliases |-> {} ],
       [ name |-> "g22_adobergb_display", aliases |-> {} ],
       [ name |-> "data",                 aliases |-> {} ] >>

InteropRoles == [ scene_linear |-> "lin_ap1_scene", default |-> "data" ]

NoSpace == ""

(* OCIO Config::getColorSpace: a role, a name or an alias, compared        *)
(* without regard to case; the space's own name, or NoSpace for null.      *)
getColorSpace(spaces, roles, name) ==
    LET n == Lower(name)
    IN  IF name = "" THEN NoSpace
        ELSE IF n \in DOMAIN roles THEN roles[n]
        ELSE IF \E i \in 1..Len(spaces) :
                   \/ Lower(spaces[i].name) = n
                   \/ n \in { Lower(a) : a \in spaces[i].aliases }
        THEN spaces[CHOOSE i \in 1..Len(spaces) :
                       \/ Lower(spaces[i].name) = n
                       \/ n \in { Lower(a) : a \in spaces[i].aliases }].name
        ELSE NoSpace

LiveGetColorSpace(name)    == getColorSpace(LiveSpaces, LiveRoles, name)
InteropGetColorSpace(name) == getColorSpace(InteropSpaces, InteropRoles, name)

(* OCIO::Config::IdentifyBuiltinColorSpace(config_, reference, name): the  *)
(* live space the engine finds equivalent to a reference space; NoSpace    *)
(* stands for the exception it throws when it finds none or cannot tell.   *)
IdentifyBuiltinColorSpace(ident, name) ==
    IF ~ident THEN NoSpace
    ELSE CASE name \in {"srgb_tx", "srgb_rec709_scene"}  -> "sRGB - Texture"
           [] name \in {"lin_srgb", "lin_rec709_scene"}  -> "acme_lin"
           [] name \in {"ACEScg", "lin_ap1_scene"}       -> "ACEScg"
           [] OTHER                                      -> NoSpace

-----------------------------------------------------------------------------
(* Construction: Impl::init, inventory, identify_builtin_equivalents.      *)

Linflags == {"is_linear_response", "is_scene_linear", "is_lin_srgb"}

(* A faulty FallbackInventory: one registration fewer.                     *)
FallbackInventory_short ==
    << CSInfo("linear", 0, Linflags),
       CSInfo("scene_linear", 0, Linflags),
       CSInfo("default", 0, Linflags),
       CSInfo("rgb", 0, Linflags),
       CSInfo("lin_rec709_scene", 0, Linflags),
       CSInfo("lin_srgb", 0, Linflags),
       CSInfo("lin_rec709", 0, Linflags),
       CSInfo("srgb_rec709_scene", 1, {"is_srgb"}),
       CSInfo("sRGB", 1, {"is_srgb"}),
       CSInfo("Rec709", 2, {"is_Rec709"}) >>

(* The names inventory() registers when there is no usable configuration. *)
FallbackInventory ==
    << CSInfo("linear", 0, Linflags),
       CSInfo("scene_linear", 0, Linflags),
       CSInfo("default", 0, Linflags),
       CSInfo("rgb", 0, Linflags),
       CSInfo("RGB", 0, Linflags),
       CSInfo("lin_rec709_scene", 0, Linflags),
       CSInfo("lin_srgb", 0, Linflags),
       CSInfo("lin_rec709", 0, Linflags),
       CSInfo("srgb_rec709_scene", 1, {"is_srgb"}),
       CSInfo("sRGB", 1, {"is_srgb"}),
       CSInfo("Rec709", 2, {"is_Rec709"}) >>

(* What Impl::init can have loaded into config_ before inventory().        *)
Loaded == {"live", "rawonly"}

SpacesOf(loaded) == IF loaded = "live" THEN LiveSpaces ELSE RawOnlySpaces

(* ColorConfig::Impl::inventory.  Returns the registry and whether config_ *)
(* is still set afterwards.                                                *)
inventory(loaded, disable_ocio) ==
    LET spaces == SpacesOf(loaded)
        nonraw == \E i \in 1..Len(spaces) : ~spaces[i].isdata
    IN  IF ~disable_ocio /\ nonraw
        THEN LET added == [ i \in 1..Len(spaces) |->
                              CSInfo(spaces[i].name, i - 1, {}) ]
                 rg    == ClassifyAll(Registry(added, NoAliases), 1)
                 lin   == getColorSpace(spaces, LiveRoles, "scene_linear")
             IN  [ rg |-> Registry(rg.cs,
                                   [ rg.al EXCEPT !.scene_linear_alias = lin ]),
                   config |-> TRUE ]
        ELSE [ rg |-> ClassifyAll(Registry(FallbackInventory, NoAliases), 1),
               config |-> FALSE ]

(* One step of identify_builtin_equivalents: ask the engine for the        *)
(* equivalent of a built-in space and flag the entry it names.             *)
IdentifyOne(rg, cfg, ident, builtin, flagval, alias) ==
    LET n == IF cfg THEN IdentifyBuiltinColorSpace(ident, builtin)
             ELSE NoSpace
        i == find(rg.cs, n)
    IN  IF n # NoSpace /\ i # 0 THEN setflag(rg, i, flagval, alias) ELSE rg

(* ColorConfig::Impl::identify_builtin_equivalents (ident is false as      *)
(* well when disable_builtin_configs is set).                              *)
identify_builtin_equivalents(rg, cfg, ident) ==
    IF ~ident THEN rg
    ELSE LET r1 == IdentifyOne(rg, cfg, ident, "srgb_tx", {"is_srgb"},
                               "srgb_alias")
             r2 == IdentifyOne(r1, cfg, ident, "lin_srgb",
                               {"is_lin_srgb", "is_linear_response"},
                               "lin_srgb_alias")
         IN  IdentifyOne(r2, cfg, ident, "ACEScg",
                         {"is_ACEScg", "is_linear_response"}, "ACEScg_alias")

(* ColorConfig::Impl::init from inventory() on.                            *)
Construct(loaded, disable_ocio, ident) ==
    LET inv == inventory(loaded, disable_ocio)
    IN  [ rg |-> identify_builtin_equivalents(inv.rg, inv.config, ident),
          config |-> inv.config ]

-----------------------------------------------------------------------------
(* Queries: resolve, equivalent, getNumColorSpaces, get_color_interop_id,  *)
(* get_cicp.  A query yields a set of possible outcomes: one value where   *)
(* the code is defined, and, where it calls through the null config_,      *)
(* anything the build may do: abort (Crash) or return any value.           *)

(* An outcome: the call returned value, or the process aborted.            *)
Ret(v) == [ crashed |-> FALSE, value |-> v ]

Crash(v) == [ crashed |-> TRUE, value |-> v ]

QueryNames ==
    { "", "sRGB", "srgb", "linear", "ACEScg", "scene_linear",
      "srgb_rec709_scene", "lin_ap1_scene", "srgb_rec709_display",
      "g22_adobergb_display", "acme_lin", "Raw", "nosuch" }

(* Impl::resolve, last part: the informal synonyms, each used only when    *)
(* its alias is set; otherwise the name itself.                            *)
resolve_informal(name, al) ==
    LET n == Lower(name)
    IN  IF n \in {"srgb", "srgb_rec709_scene"} /\ al.srgb_alias # ""
        THEN al.srgb_alias
        ELSE IF n \in {"lin_srgb", "lin_rec709", "lin_rec709_scene", "linear"}
                /\ al.lin_srgb_alias # ""
        THEN al.lin_srgb_alias
        ELSE IF n \in {"acescg", "lin_ap1_scene"} /\ al.ACEScg_alias # ""
        THEN al.ACEScg_alias
        ELSE IF n = "scene_linear" /\ al.scene_linear_alias # ""
        THEN al.scene_linear_alias
        ELSE IF n = "rec709" /\ al.Rec709_alias # ""
        THEN al.Rec709_alias
        ELSE name

(* Impl::resolve with a live configuration.                                *)
resolve_live(name, al, ident) ==
    LET cs         == LiveGetColorSpace(name)
        builtin_cs == InteropGetColorSpace(name)
        equiv      == IF builtin_cs # NoSpace
                      THEN IdentifyBuiltinColorSpace(ident, builtin_cs)
                      ELSE NoSpace
    IN  IF cs # NoSpace THEN cs
        ELSE IF equiv # NoSpace THEN equiv
        ELSE resolve_informal(name, al)

(* ColorConfig::resolve -> Impl::resolve.  Its first statement calls       *)
(* config_->getColorSpace, with no test of config_.                        *)
resolve(name, cfg, al, ident) ==
    IF ~cfg THEN {Crash("")} \cup { Ret(n) : n \in QueryNames }
    ELSE { Ret(resolve_live(name, al, ident)) }

(* ColorConfig::equivalent from the flag comparison on, for two resolved   *)
(* names.                                                                  *)
equivalent_entries(css, n1, n2) ==
    LET i1 == find(css, n1)
        i2 == find(css, n2)
    IN  /\ i1 # 0
        /\ i2 # 0
        /\ LET flags1 == css[i1].m_flags \cap is_known
               flags2 == css[i2].m_flags \cap is_known
           IN  \/ ( (flags1 \cup flags2) # {}
                    /\ css[i1].m_flags = css[i2].m_flags )
               \/ ( /\ css[i1].canonical # ""
                    /\ css[i2].canonical # ""
                    /\ iequals(css[i1].canonical, css[i2].canonical) )

(* ColorConfig::equivalent once both names are resolved.                  *)
equivalent_resolved(css, r1, r2) ==
    IF r1 = "" \/ r2 = "" THEN FALSE
    ELSE IF iequals(r1, r2) THEN TRUE
    ELSE equivalent_entries(css, r1, r2)

(* ColorConfig::equivalent with a live configuration.                      *)
equivalent_live(a, b, css, al, ident) ==
    IF a = "" \/ b = "" THEN FALSE
    ELSE IF iequals(a, b) THEN TRUE
    ELSE equivalent_resolved(css, resolve_live(a, al, ident),
                             resolve_live(b, al, ident))

(* ColorConfig::equivalent.  Names that are empty or equal up to case are  *)
(* settled before resolve is called; otherwise resolve is called, which    *)
(* reads through config_ untested.                                         *)
equivalent(a, b, cfg, css, al, ident) ==
    IF a = "" \/ b = "" \/ iequals(a, b) \/ cfg
    THEN { Ret(equivalent_live(a, b, css, al, ident)) }
    ELSE { Crash(FALSE), Ret(TRUE), Ret(FALSE) }

(* Impl::getNumColorSpaces                                                 *)
getNumColorSpaces(css) == Len(css)

(* color_interop_ids: the static table, in source order.                   *)
WithCicp(id, primaries, transfer, matrix) ==
    [ interop_id |-> id, cicp |-> << primaries, transfer, matrix, 1 >>,
      has_cicp |-> TRUE ]

WithoutCicp(id) ==
    [ interop_id |-> id, cicp |-> << 0, 0, 0, 0 >>, has_cicp |-> FALSE ]

color_interop_ids ==
    << WithCicp("srgb_rec709_display", 1, 13, 1),
       WithCicp("g24_rec709_display", 1, 1, 1),
       WithCicp("srgb_p3d65_display", 12, 13, 1),
       WithCicp("srgbe_p3d65_display", 12, 13, 1),
       WithCicp("pq_p3d65_display", 12, 16, 9),
       WithCicp("pq_rec2020_display", 9, 16, 9),
       WithCicp("hlg_rec2020_display", 9, 18, 9),
       WithCicp("g22_rec709_display", 1, 4, 1),
       WithoutCicp("g22_adobergb_display"),
       WithCicp("g26_p3d65_display", 12, 17, 1),
       WithCicp("g26_xyzd65_display", 10, 17, 2),
       WithCicp("pq_xyzd65_display", 10, 16, 2),
       WithoutCicp("lin_ap1_scene"),
       WithoutCicp("lin_ap0_scene"),
       WithCicp("lin_rec709_scene", 1, 8, 1),
       WithCicp("lin_p3d65_scene", 12, 8, 1),
       WithCicp("lin_rec2020_scene", 9, 8, 10),
       WithoutCicp("lin_adobergb_scene"),
       WithCicp("lin_ciexyzd65_scene", 10, 8, 2),
       WithCicp("srgb_rec709_scene", 1, 13, 1),
       WithCicp("g22_rec709_scene", 1, 4, 1),
       WithoutCicp("g18_rec709_scene"),
       WithoutCicp("srgb_ap1_scene"),
       WithoutCicp("g22_ap1_scene"),
       WithCicp("srgb_p3d65_scene", 12, 13, 1),
       WithoutCicp("g22_adobergb_scene"),
       WithoutCicp("data"),
       WithCicp("unknown", 2, 2, 2) >>

(* The first index in lo..hi of seq ids for which P holds is found by the  *)
(* loops below; 0 when there is none.                                      *)
FirstSuch(S) == IF S = {} THEN 0 ELSE CHOOSE i \in S : \A j \in S : i <= j

(* Impl::get_builtin_interop_ids                                           *)
get_builtin_interop_ids ==
    LET ids == [ i \in 1..Len(InteropSpaces) |-> InteropSpaces[i].name ]
        has(q, x) == \E i \in 1..Len(q) : q[i] = x
        w1  == IF has(ids, "data") THEN ids ELSE Append(ids, "data")
    IN  IF has(w1, "unknown") THEN w1 ELSE Append(w1, "unknown")

(* ColorConfig::get_color_interop_id(colorspace, strict) with a live       *)
(* configuration (the engine here is older than 2.5: no native interop id).*)
get_color_interop_id_live(colorspace, strict, css, al, ident) ==
    LET cs   == LiveGetColorSpace(colorspace)
        ci   == CHOOSE i \in 1..Len(LiveSpaces) : LiveSpaces[i].name = cs
        tab  == FirstSuch({ i \in 1..Len(color_interop_ids) :
                    equivalent_live(colorspace,
                                    color_interop_ids[i].interop_id,
                                    css, al, ident) })
        byname  == InteropGetColorSpace(cs)
        byalias == { InteropGetColorSpace(a) : a \in LiveSpaces[ci].aliases }
                      \ {NoSpace}
        ids  == get_builtin_interop_ids
        last_ == FirstSuch({ i \in 1..Len(ids) :
                    equivalent_live(cs, ids[i], css, al, ident) })
    IN  IF cs = NoSpace THEN InteropGetColorSpace(colorspace)
        ELSE IF LiveSpaces[ci].isdata THEN "data"
        ELSE IF tab # 0 THEN color_interop_ids[tab].interop_id
        ELSE IF strict THEN ""
        ELSE IF byname # NoSpace THEN byname
        ELSE IF byalias # {} THEN CHOOSE x \in byalias : TRUE
        ELSE IF last_ # 0 THEN ids[last_]
        ELSE ""

(* Strings an undefined read may hand back as an interop id.               *)
InteropIdNames ==
    { "", "srgb_rec709_display", "lin_ap1_scene", "lin_rec709_scene",
      "data", "nosuch" }

(* ColorConfig::get_color_interop_id(colorspace, strict): an empty name    *)
(* is returned at once; then config->getColorSpace is called with no test  *)
(* of config.                                                              *)
get_color_interop_id(colorspace, strict, cfg, css, al, ident) ==
    IF colorspace = "" THEN { Ret("") }
    ELSE IF ~cfg THEN {Crash("")} \cup { Ret(n) : n \in InteropIdNames }
    ELSE { Ret(get_color_interop_id_live(colorspace, strict, css, al, ident)) }

NoCicp == << >>

(* ColorConfig::get_cicp after the interop id is known: the code of the    *)
(* first table entry that has one and carries that id.                     *)
cicp_lookup(interop_id) ==
    LET hit == FirstSuch({ i \in 1..Len(color_interop_ids) :
                  /\ color_interop_ids[i].has_cicp
                  /\ interop_id = color_interop_ids[i].interop_id })
    IN  IF interop_id # "" /\ hit # 0 THEN color_interop_ids[hit].cicp
        ELSE NoCicp

(* A faulty lookup by code: the last matching entry, not the first.        *)
get_color_interop_id_cicp_last(cicp) ==
    LET S == { i \in 1..Len(color_interop_ids) :
                 /\ color_interop_ids[i].has_cicp
                 /\ color_interop_ids[i].cicp[1] = cicp[1]
                 /\ color_interop_ids[i].cicp[2] = cicp[2] }
    IN  IF S = {} THEN ""
        ELSE color_interop_ids[CHOOSE i \in S : \A j \in S : j <= i].interop_id

(* ColorConfig::get_color_interop_id(const int cicp[4]): the id of the     *)
(* first entry that has a code with these primaries and transfer.          *)
get_color_interop_id_cicp(cicp) ==
    LET hit == FirstSuch({ i \in 1..Len(color_interop_ids) :
                  /\ color_interop_ids[i].has_cicp
                  /\ color_interop_ids[i].cicp[1] = cicp[1]
                  /\ color_interop_ids[i].cicp[2] = cicp[2] })
    IN  IF hit # 0 THEN color_interop_ids[hit].interop_id ELSE ""

(* Codes a caller may pass: CICPPrimaries, CICPTransfer, CICPMatrix and    *)
(* CICPRange values of the table, and values outside it.                   *)
CicpCodes ==
    { << p, t, m, r >> : p \in {1, 5, 9, 12}, t \in {1, 4, 6, 8, 13},
                         m \in {1, 9}, r \in {0, 1} }

-----------------------------------------------------------------------------
(* SpecNames: a ColorConfig is constructed, then queried.                  *)

NoOp == [ name |-> None, crashed |-> FALSE ]

NamesInit ==
    \E loaded \in Loaded, disable_ocio \in BOOLEAN, ident \in BOOLEAN :
        LET c == Construct(loaded, disable_ocio, ident)
        IN  /\ config_ = c.config
            /\ colorspaces = c.rg.cs
            /\ aliases = c.rg.al
            /\ identifies = ident
            /\ op = NoOp

Resolve(name) ==
    /\ \E r \in resolve(name, config_, aliases, identifies) :
          op' = [ name |-> "resolve", arg |-> name, crashed |-> r.crashed,
                  result |-> r.value ]
    /\ UNCHANGED << config_, colorspaces, aliases, identifies >>
    /\ UNCHANGED cacheVars
    /\ UNCHANGED keyVars
    /\ UNCHANGED imageVars
    /\ UNCHANGED lockVars

(* equivalent(a, b), and equivalent(b, a) in the same state.               *)
Equivalent(a, b) ==
    /\ \E r1 \in equivalent(a, b, config_, colorspaces, aliases, identifies) :
       \E r2 \in equivalent(b, a, config_, colorspaces, aliases, identifies) :
          op' = [ name |-> "equivalent", a |-> a, b |-> b,
                  crashed |-> r1.crashed \/ r2.crashed,
                  result |-> r1.value, swapped |-> r2.value ]
    /\ UNCHANGED << config_, colorspaces, aliases, identifies >>
    /\ UNCHANGED cacheVars
    /\ UNCHANGED keyVars
    /\ UNCHANGED imageVars
    /\ UNCHANGED lockVars

GetNumColorSpaces ==
    /\ op' = [ name |-> "getNumColorSpaces", crashed |-> FALSE,
               result |-> getNumColorSpaces(colorspaces) ]
    /\ UNCHANGED << config_, colorspaces, aliases, identifies >>
    /\ UNCHANGED cacheVars
    /\ UNCHANGED keyVars
    /\ UNCHANGED imageVars
    /\ UNCHANGED lockVars

(* What get_cicp may hand back once get_color_interop_id has read through *)
(* the null config: nothing, or any code.                                  *)
UndefinedCicps == { NoCicp, << 1, 13, 1, 1 >>, << 0, 0, 0, 0 >> }

(* ColorConfig::get_cicp(colorspace): get_color_interop_id, then the table *)
(* lookup.  The default of strict is declared outside this file; both      *)
(* values are taken.                                                       *)
GetCicp(name) ==
    /\ \E strict \in BOOLEAN :
       \E id \in get_color_interop_id(name, strict, config_, colorspaces,
                                      aliases, identifies) :
       \E code \in IF id.crashed THEN { NoCicp }
                    ELSE IF name # "" /\ ~config_ THEN UndefinedCicps
                    ELSE { cicp_lookup(id.value) } :
          op' = [ name |-> "get_cicp", arg |-> name, strict |-> strict,
                  crashed |-> id.crashed, id |-> id.value, result |-> code ]
    /\ UNCHANGED << config_, colorspaces, aliases, identifies >>
    /\ UNCHANGED cacheVars
    /\ UNCHANGED keyVars
    /\ UNCHANGED imageVars
    /\ UNCHANGED lockVars

(* get_color_interop_id(cicp) reads the table only.                       *)
GetColorInteropIdOfCicp(cicp) ==
    /\ op' = [ name |-> "get_color_interop_id(cicp)", crashed |-> FALSE,
               arg |-> cicp, result |-> get_color_interop_id_cicp(cicp) ]
    /\ UNCHANGED << config_, colorspaces, aliases, identifies >>
    /\ UNCHANGED cacheVars
    /\ UNCHANGED keyVars
    /\ UNCHANGED imageVars
    /\ UNCHANGED lockVars

(* A process that aborted makes no further call.                           *)
NamesNext ==
    /\ ~op.crashed
    /\ \/ \E n \in QueryNames : Resolve(n)
       \/ \E a \in QueryNames, b \in QueryNames : Equivalent(a, b)
       \/ GetNumColorSpaces
       \/ \E n \in QueryNames : GetCicp(n)
       \/ \E cicp \in CicpCodes : GetColorInteropIdOfCicp(cicp)

SpecNamesInit ==
    /\ NamesInit
    /\ CacheIdle
    /\ KeyIdle
    /\ ImageIdle
    /\ LockIdle

SpecNames == SpecNamesInit /\ [][NamesNext]_vars

-----------------------------------------------------------------------------
(* SpecRegistry: the registry is built step by step (the adds of           *)
(* inventory(), its classification by name, identify_builtin_equivalents), *)
(* then entries are examined and names are compared.  op holds the step    *)
(* made last and the build option OIIO_SITE_spi.                           *)

(* Names classify_by_name knows in a build with OIIO_SITE_spi.             *)
SpiLinSrgb == {"srgblnf", "srgblnh", "srgbln16", "srgbln8"}

SpiSrgb == {"srgbf", "srgbh", "srgb16", "srgb8"}

(* starts_with(name, "cgln"), over the names used here.                    *)
SpiACEScg == {"cgln", "cglnf", "cglnh"}

(* The names classify_by_name knows in every build, in lower case.         *)
NamedSpaces ==
    { "srgb_rec709_scene", "srgb_tx", "srgb_texture", "srgb texture",
      "srgb - texture", "srgb", "lin_rec709_scene", "lin_rec709",
      "linear rec.709 (srgb)", "lin_srgb", "linear", "acescg",
      "lin_ap1_scene", "lin_ap1", "rec709" }

(* classify_by_name, last part: the canonical name from the flags.         *)
SetCanonical(rg, i) ==
    LET c == CanonicalOf(rg.cs[i].m_flags, rg.cs[i].canonical)
    IN  Registry([ rg.cs EXCEPT ![i].canonical = c,
                                ![i].examined = (@ \/ c # "") ],
                 rg.al)

(* classify_by_name as compiled with OIIO_SITE_spi (spi) or without.       *)
classify_by_name_site(rg, i, spi) ==
    LET name == rg.cs[i].name
    IN  IF spi /\ Lower(name) \notin NamedSpaces /\ name \in SpiACEScg
        THEN SetCanonical(setflag(rg, i, {"is_ACEScg", "is_linear_response"},
                                  "ACEScg_alias"), i)
        ELSE IF spi /\ Lower(name) \notin NamedSpaces /\ name \in SpiSrgb
        THEN SetCanonical(setflag(rg, i, {"is_srgb"}, "srgb_alias"), i)
        ELSE IF spi /\ Lower(name) \notin NamedSpaces /\ name \in SpiLinSrgb
        THEN SetCanonical(setflag(rg, i, {"is_lin_srgb"}, "lin_srgb_alias"), i)
        ELSE classify_by_name(rg, i)

RECURSIVE ClassifyAllSite(_, _, _)
ClassifyAllSite(rg, i, spi) ==
    IF i > Len(rg.cs) THEN rg
    ELSE ClassifyAllSite(classify_by_name_site(rg, i, spi), i + 1, spi)

(* inventory(), the add() calls: the configuration's spaces, or the        *)
(* fallback names after config_.reset().                                   *)
inventory_add(loaded, disable_ocio) ==
    LET spaces == SpacesOf(loaded)
        nonraw == \E i \in 1..Len(spaces) : ~spaces[i].isdata
    IN  IF ~disable_ocio /\ nonraw
        THEN [ cs |-> [ i \in 1..Len(spaces) |->
                          CSInfo(spaces[i].name, i - 1, {}) ],
               config |-> TRUE ]
        ELSE [ cs |-> FallbackInventory, config |-> FALSE ]

(* CSInfo::setflag(flagval) on entry i.                                    *)
setflag_bits(rg, i, flagval) ==
    Registry([ rg.cs EXCEPT ![i].m_flags = @ \cup flagval ], rg.al)

(* Impl::isColorSpaceLinear without a configuration: by the name.          *)
LinearByName(name) ==
    Lower(name) \in { "linear", "lin_rec709_scene", "lin_srgb", "lin_rec709",
                      "lin_ap1_scene", "lin_ap1", "acme_lin", "scene_linear" }

(* What the engine answers while an entry is classified by conversions:    *)
(* whether the space is linear, and which built-in space its transform     *)
(* matches ("lut3d": it holds a 3D LUT and is skipped).                    *)
EngineMatches == { None, "lut3d", "srgb_tx", "lin_srgb", "ACEScg" }

(* ColorConfig::Impl::classify_by_conversions on entry i.  The flag named  *)
(* in the srgb_tx branch, is_srgb_rec709, is not one of CSInfo::Flags.     *)
classify_by_conversions(rg, i, cfg, linear, match) ==
    IF rg.cs[i].examined THEN rg
    ELSE LET lin == IF cfg THEN linear ELSE LinearByName(rg.cs[i].name)
             r1  == IF lin THEN setflag_bits(rg, i, {"is_linear_response"})
                    ELSE rg
             r2  == IF r1.cs[i].m_flags \cap is_known = {} /\ cfg
                    THEN CASE match = "srgb_tx" ->
                                setflag(r1, i, {"is_srgb_rec709"}, "srgb_alias")
                           [] match = "lin_srgb" ->
                                setflag(r1, i, {"is_lin_srgb",
                                                "is_linear_response"},
                                        "lin_srgb_alias")
                           [] match = "ACEScg" ->
                                setflag(r1, i, {"is_ACEScg",
                                                "is_linear_response"},
                                        "ACEScg_alias")
                           [] OTHER -> r1
                    ELSE r1
         IN  Registry([ r2.cs EXCEPT ![i].canonical =
                           CanonicalOf(r2.cs[i].m_flags, @) ], r2.al)

(* ColorConfig::Impl::reclassify_heuristics: its body is compiled only for *)
(* an engine older than 2.2, which lacks the IdentifyBuiltinColorSpace     *)
(* this file calls unconditionally; in every build it is empty.            *)
reclassify_heuristics(rg, i) == rg

(* Impl::examine on entry i.                                               *)
examine(rg, i, cfg, spi, linear, match) ==
    IF rg.cs[i].examined THEN rg
    ELSE LET r1 == classify_by_name_site(rg, i, spi)
             r2 == classify_by_conversions(r1, i, cfg, linear, match)
             r3 == reclassify_heuristics(r2, i)
         IN  Registry([ r3.cs EXCEPT ![i].examined = TRUE ], r3.al)

(* identify_builtin_equivalents in a given state of config_.               *)
identify(rg, cfg, ident) ==
    identify_builtin_equivalents(rg, cfg, ident /\ cfg)

Step(name) == [ name |-> name, crashed |-> FALSE, spi |-> op.spi ]

RegistryInit ==
    \E loaded \in Loaded, disable_ocio \in BOOLEAN, ident \in BOOLEAN :
    \E spi \in BOOLEAN :
        /\ config_ = TRUE
        /\ colorspaces = << >>
        /\ aliases = NoAliases
        /\ identifies = ident
        /\ op = [ name |-> "init", crashed |-> FALSE, spi |-> spi,
                  loaded |-> loaded, disable_ocio |-> disable_ocio ]

InventoryAdd ==
    /\ op.name = "init"
    /\ LET r == inventory_add(op.loaded, op.disable_ocio)
       IN  /\ colorspaces' = r.cs
           /\ config_' = r.config
    /\ op' = Step("add")
    /\ UNCHANGED << aliases, identifies >>
    /\ UNCHANGED cacheVars
    /\ UNCHANGED keyVars
    /\ UNCHANGED imageVars
    /\ UNCHANGED lockVars

(* inventory(): classify_by_name on every entry, and the scene_linear role *)
(* of a live configuration.                                                *)
InventoryClassify ==
    /\ op.name = "add"
    /\ LET r == ClassifyAllSite(Registry(colorspaces, aliases), 1, op.spi)
       IN  /\ colorspaces' = r.cs
           /\ aliases' = IF config_
                         THEN [ r.al EXCEPT !.scene_linear_alias =
                                   LiveGetColorSpace("scene_linear") ]
                         ELSE r.al
    /\ op' = Step("classify")
    /\ UNCHANGED << config_, identifies >>
    /\ UNCHANGED cacheVars
    /\ UNCHANGED keyVars
    /\ UNCHANGED imageVars
    /\ UNCHANGED lockVars

Identify ==
    /\ op.name = "classify"
    /\ LET r == identify(Registry(colorspaces, aliases), config_, identifies)
       IN  /\ colorspaces' = r.cs
           /\ aliases' = r.al
    /\ op' = Step("identify")
    /\ UNCHANGED << config_, identifies >>
    /\ UNCHANGED cacheVars
    /\ UNCHANGED keyVars
    /\ UNCHANGED imageVars
    /\ UNCHANGED lockVars

Constructed == op.name \in {"identify", "examine", "equivalent"}

Examine(i) ==
    /\ Constructed
    /\ i \in 1..Len(colorspaces)
    /\ \E linear \in BOOLEAN, match \in EngineMatches :
          LET r == examine(Registry(colorspaces, aliases), i, config_,
                           op.spi, linear, match)
          IN  /\ colorspaces' = r.cs
              /\ aliases' = r.al
    /\ op' = [ name |-> "examine", crashed |-> FALSE, spi |-> op.spi,
               entry |-> colorspaces[i].name ]
    /\ UNCHANGED << config_, identifies >>
    /\ UNCHANGED cacheVars
    /\ UNCHANGED keyVars
    /\ UNCHANGED imageVars
    /\ UNCHANGED lockVars

(* The names compared: entries of the configuration and two synonyms.      *)
RegistryNames ==
    { "ACEScg", "sRGB - Texture", "acme_lin", "srgblnf", "sRGB", "linear" }

(* ColorConfig::equivalent on a constructed instance that has a            *)
(* configuration.                                                          *)
EquivalentLive(a, b) ==
    /\ Constructed
    /\ config_
    /\ op' = [ name |-> "equivalent", crashed |-> FALSE, spi |-> op.spi,
               a |-> a, b |-> b,
               result |-> equivalent_live(a, b, colorspaces, aliases,
                                          identifies) ]
    /\ UNCHANGED << config_, colorspaces, aliases, identifies >>
    /\ UNCHANGED cacheVars
    /\ UNCHANGED keyVars
    /\ UNCHANGED imageVars
    /\ UNCHANGED lockVars

RegistryNext ==
    \/ InventoryAdd
    \/ InventoryClassify
    \/ Identify
    \/ \E i \in 1..Len(colorspaces) : Examine(i)
    \/ \E a \in RegistryNames, b \in RegistryNames : EquivalentLive(a, b)

SpecRegistryInit ==
    /\ RegistryInit
    /\ CacheIdle
    /\ KeyIdle
    /\ ImageIdle
    /\ LockIdle

SpecRegistry == SpecRegistryInit /\ [][RegistryNext]_vars

-----------------------------------------------------------------------------
(* SpecError: one caller issues create* calls, reads the error slot and    *)
(* asks for matrix transforms.                                             *)

ErrCalls == 3

AllIdle == \A t \in Threads : pc[t] = "idle"

(* A faulty geterror: the message stays whatever clear is.                 *)
geterror_keep(err, clear) == [ ret |-> err, m_error |-> err ]

(* Impl::geterror(clear): the message, swapped out of the slot when clear  *)
(* is set.                                                                 *)
geterror(err, clear) ==
    [ ret |-> err, m_error |-> IF clear THEN "" ELSE err ]

(* Impl::haserror                                                          *)
haserror(err) == err # ""

(* ColorConfig::geterror(clear), and has_error() right after it.           *)
GetError(clear) ==
    /\ AllIdle
    /\ budget > 0
    /\ budget' = budget - 1
    /\ LET r == geterror(m_error, clear)
       IN  /\ m_error' = r.m_error
           /\ op' = [ name |-> "geterror", crashed |-> FALSE, at |-> budget,
                      clear |-> clear, result |-> r.ret,
                      has_error |-> haserror(r.m_error) ]
    /\ UNCHANGED << colorprocmap, colorprocs_requested, colorprocs_created,
                    compiles, nextproc, pc, req, key, handle, outcome,
                    installed, last, prev, config_ >>
    /\ UNCHANGED << colorspaces, aliases, identifies >>
    /\ UNCHANGED keyVars
    /\ UNCHANGED imageVars
    /\ UNCHANGED lockVars

(* The matrices and flags createMatrixTransform is called with.            *)
Matrices == {"identity", "scale"}

(* A faulty createMatrixTransform: the call is counted as a request.       *)
createMatrixTransform_counted(np, requested, created, err, map) ==
    [ handle |-> np, requested |-> requested + 1, created |-> created,
      m_error |-> err, map |-> map ]

(* ColorConfig::createMatrixTransform: a new ColorProcessor_Matrix in a    *)
(* handle; no member of the Impl is read or written.                       *)
createMatrixTransform(np, requested, created, err, map) ==
    [ handle |-> np, requested |-> requested, created |-> created,
      m_error |-> err, map |-> map ]

CreateMatrixTransform(M, inverse) ==
    /\ AllIdle
    /\ budget > 0
    /\ budget' = budget - 1
    /\ LET r == createMatrixTransform(nextproc, colorprocs_requested,
                                      colorprocs_created, m_error,
                                      colorprocmap)
       IN  /\ colorprocs_requested' = r.requested
           /\ colorprocs_created' = r.created
           /\ m_error' = r.m_error
           /\ colorprocmap' = r.map
           /\ op' = [ name |-> "createMatrixTransform", crashed |-> FALSE,
                      at |-> budget, M |-> M, inverse |-> inverse,
                      ret |-> r.handle ]
    /\ nextproc' = nextproc + 1
    /\ UNCHANGED << compiles, pc, req, key, handle, outcome, installed,
                    last, prev, config_ >>
    /\ UNCHANGED << colorspaces, aliases, identifies >>
    /\ UNCHANGED keyVars
    /\ UNCHANGED imageVars
    /\ UNCHANGED lockVars

ErrorInit ==
    /\ config_ \in BOOLEAN
    /\ CacheInit({"t1"}, ErrCalls)
    /\ KeyIdle
    /\ ImageIdle
    /\ LockIdle
    /\ colorspaces = << >>
    /\ aliases = None
    /\ identifies = FALSE
    /\ op = [ name |-> None, crashed |-> FALSE, at |-> ErrCalls + 1 ]

ErrorNext ==
    \/ \E t \in Threads, r \in CacheRequests : Call(t, r)
    \/ \E t \in Threads : NoEngine(t)
    \/ \E t \in Threads : NullConfig(t)
    \/ \E t \in Threads : Compile(t)
    \/ \E t \in Threads : AddProc(t)
    \/ \E clear \in BOOLEAN : GetError(clear)
    \/ \E M \in Matrices, inverse \in BOOLEAN : CreateMatrixTransform(M, inverse)

SpecError == ErrorInit /\ [][ErrorNext]_vars

-----------------------------------------------------------------------------
(* ImageBufAlgo::colorconvert and its two kernels.                         *)
(*                                                                         *)
(* Float values are kept on a grid: FltMin is                              *)
(* std::numeric_limits<float>::min(), One is 1.0f, and a quotient or a     *)
(* product is rounded down to the grid as float arithmetic rounds.  Both   *)
(* buffers hold float pixels; the region is one scanline of Width pixels,  *)
(* channels 0 .. chend-1.                                                  *)

Width == 2

FltMin == 1

One == 4

Half == 2

fdiv(x, a) == (x * One) \div a

fmul(x, a) == (x * a) \div One

Min(a, b) == IF a < b THEN a ELSE b

(* Alpha values a source pixel may carry: negative, zero, FltMin, between  *)
(* FltMin and 1, and 1.0.                                                  *)
Alphas == { 0 - One, 0, FltMin, Half, One }

(* Number of channels of the buffers.                                      *)
ChannelCounts == { 1, 3, 4, 5 }

(* A source pixel of n channels with alpha a (channel 3, when present).    *)
SrcPixel(n, a) == [ c \in 1..n |-> IF c = 4 THEN a ELSE 4 * c ]

(* What a destination that is a different buffer holds before the call.    *)
DstFill == 3

DstPixel(n) == [ c \in 1..n |-> DstFill ]

(* ColorProcessor test doubles: the null pointer, a processor that reports *)
(* isNoOp, one that doubles the colour channels, one that adds alpha to    *)
(* the first channel, and one that sets alpha to 0.5.                      *)
NullProcessor == "<null>"

Processors == { NullProcessor, "noop", "gain", "mix", "fade" }

isNoOp(processor) == processor = "noop"

(* ColorProcessor::apply on one RGBA pixel.                                *)
apply(processor, v) ==
    CASE processor = "gain" -> << 2 * v[1], 2 * v[2], 2 * v[3], v[4] >>
      [] processor = "mix"  -> << v[1] + v[4], v[2], v[3], v[4] >>
      [] processor = "fade" -> << v[1], v[2], v[3], Half >>
      [] OTHER              -> v

(* A faulty AlphaDivisor: alpha equal to fltmin is taken as 1.             *)
AlphaDivisor_above(a) == IF a > FltMin THEN a ELSE One

(* a = a >= fltmin ? a : 1.0f                                              *)
AlphaDivisor(a) == IF a >= FltMin THEN a ELSE One

(* scanline[i] /= vfloat4(a, a, a, 1.0f), a taken from channel 3.          *)
Unpremult(v) ==
    LET a == AlphaDivisor(v[4])
    IN  << fdiv(v[1], a), fdiv(v[2], a), fdiv(v[3], a), fdiv(v[4], One) >>

(* The float-RGBA kernel leaves the pixel alone when the divisor is 1.     *)
UnpremultRGBA(v) ==
    IF AlphaDivisor(v[4]) = One THEN v ELSE Unpremult(v)

(* scanline[i] *= vfloat4(a, a, a, 1.0f), a the alpha saved before the     *)
(* transform.                                                              *)
Premult(v, alpha) ==
    LET a == AlphaDivisor(alpha)
    IN  << fmul(v[1], a), fmul(v[2], a), fmul(v[3], a), fmul(v[4], One) >>

(* A faulty LoadPixel: a single channel is not copied to the others.       *)
LoadPixel_nobroadcast(px, channelsToCopy) ==
    [ c \in 1..4 |-> IF c <= channelsToCopy THEN px[c] ELSE 0 ]

(* colorconvert_impl, load: the first channelsToCopy channels, the rest 0; *)
(* a single channel is copied to all three colour channels.                *)
LoadPixel(px, channelsToCopy) ==
    LET v == [ c \in 1..4 |-> IF c <= channelsToCopy THEN px[c] ELSE 0 ]
    IN  IF channelsToCopy = 1 THEN << v[1], v[1], v[1], v[4] >> ELSE v

(* colorconvert_impl, leftover channels: r[c] = 0.5 + 10 * a[c].           *)
Leftover(x) == Half + 10 * x

(* colorconvert_impl<float, float>: the pixels handed to apply, the        *)
(* unpremult setting in effect, and the destination afterwards.  same is   *)
(* &R == &A.                                                               *)
colorconvert_impl(Rb, Ab, processor, unpremult, chend, same) ==
    LET channelsToCopy == Min(4, chend)
        up     == unpremult /\ ~(channelsToCopy < 4)
        v(i)   == LoadPixel(Ab[i], channelsToCopy)
        tp(i)  == IF up THEN Unpremult(v(i)) ELSE v(i)
        out(i) == IF up THEN Premult(apply(processor, tp(i)), v(i)[4])
                  ELSE apply(processor, tp(i))
    IN  [ toproc    |-> [ i \in 1..Len(Ab) |-> tp(i) ],
          fromproc  |-> [ i \in 1..Len(Ab) |-> apply(processor, tp(i)) ],
          unpremult |-> up,
          R |-> [ i \in 1..Len(Ab) |->
                    [ c \in 1..Len(Rb[i]) |->
                        IF c <= channelsToCopy THEN out(i)[c]
                        ELSE IF c <= chend /\ ~same THEN Leftover(Ab[i][c])
                        ELSE Rb[i][c] ] ] ]

(* colorconvert_impl_float_rgba: whole RGBA pixels are copied in, worked   *)
(* on and copied out.                                                      *)
colorconvert_impl_float_rgba(Rb, Ab, processor, unpremult) ==
    LET v(i)   == Ab[i]
        tp(i)  == IF unpremult THEN UnpremultRGBA(v(i)) ELSE v(i)
        out(i) == IF unpremult THEN Premult(apply(processor, tp(i)), v(i)[4])
                  ELSE apply(processor, tp(i))
    IN  [ toproc    |-> [ i \in 1..Len(Ab) |-> tp(i) ],
          fromproc  |-> [ i \in 1..Len(Ab) |-> apply(processor, tp(i)) ],
          unpremult |-> unpremult,
          R |-> [ i \in 1..Len(Ab) |-> out(i) ] ]

(* A faulty copy: nothing is copied.                                       *)
copy_nothing(Rb, Ab, chend) == Rb

(* ImageBufAlgo::copy(dst, src, TypeUnknown, roi): the region's channels.  *)
copy(Rb, Ab, chend) ==
    [ i \in 1..Len(Ab) |->
        [ c \in 1..Len(Rb[i]) |-> IF c <= chend THEN Ab[i][c] ELSE Rb[i][c] ] ]

NullProcessorMsg == "Passed NULL ColorProcessor to colorconvert() [probable application bug]"

(* A faulty NullResult: the destination is cleared as well.                *)
NullResult_clear(Rb) ==
    [ R |-> [ i \in 1..Len(Rb) |-> [ c \in 1..Len(Rb[i]) |-> 0 ] ],
      ret |-> FALSE, err |-> NullProcessorMsg ]

(* colorconvert with a null processor: dst.errorfmt(...), return false.    *)
NullResult(Rb) == [ R |-> Rb, ret |-> FALSE, err |-> NullProcessorMsg ]

(* The arguments of one call: buffers of n channels, the source pixels'    *)
(* alphas, the region's channel range, whether dst and src are the same    *)
(* buffer, whether both are in local memory, and whether the source is     *)
(* tagged as having unassociated alpha.                                    *)
ImageInit ==
    \E n \in ChannelCounts, al \in [ 1..Width -> Alphas ] :
    \E chend \in 1..n, processor \in Processors :
    \E unpremult \in BOOLEAN, same \in BOOLEAN, localpixels \in BOOLEAN :
    \E unassociated \in BOOLEAN :
        /\ A = [ i \in 1..Width |-> SrcPixel(n, al[i]) ]
        /\ R = IF same THEN A ELSE [ i \in 1..Width |-> DstPixel(n) ]
        /\ call = [ kind |-> "colorconvert", state |-> "pending",
                    nchannels |-> n, chend |-> chend,
                    processor |-> processor, unpremult |-> unpremult,
                    same |-> same, localpixels |-> localpixels,
                    unassociated |-> unassociated ]

Pending == call.kind = "colorconvert" /\ call.state = "pending"

(* What a finished call leaves for observation: the path taken, the value  *)
(* returned, the destination's error message, the buffers before the       *)
(* call, the unpremult setting in effect and the pixels handed to and      *)
(* returned by apply (none when apply was not called).                     *)
Done(path, ret, err, k) ==
    [ kind |-> "colorconvert", state |-> "done",
      nchannels |-> call.nchannels, chend |-> call.chend,
      processor |-> call.processor, unpremult |-> call.unpremult,
      same |-> call.same, localpixels |-> call.localpixels,
      unassociated |-> call.unassociated,
      path |-> path, ret |-> ret, err |-> err, src0 |-> A, dst0 |-> R,
      applied |-> k.applied, effective |-> k.unpremult,
      toproc |-> k.toproc, fromproc |-> k.fromproc ]

NotApplied ==
    [ applied |-> FALSE, unpremult |-> FALSE, toproc |-> << >>,
      fromproc |-> << >> ]

Applied(k) ==
    [ applied |-> TRUE, unpremult |-> k.unpremult, toproc |-> k.toproc,
      fromproc |-> k.fromproc ]

(* if (!processor) { dst.errorfmt(...); return false; }                    *)
ConvertNull ==
    /\ Pending
    /\ call.processor = NullProcessor
    /\ LET r == NullResult(R)
       IN  /\ R' = r.R
           /\ A' = IF call.same THEN r.R ELSE A
           /\ call' = Done("null", r.ret, r.err, NotApplied)
    /\ UNCHANGED << config_ >>
    /\ UNCHANGED cacheVars
    /\ UNCHANGED keyVars
    /\ UNCHANGED nameVars
    /\ UNCHANGED lockVars

(* if (processor->isNoOp() && (&dst == &src)) return true;                 *)
ConvertNoOpInPlace ==
    /\ Pending
    /\ call.processor # NullProcessor
    /\ isNoOp(call.processor)
    /\ call.same
    /\ call' = Done("noop-inplace", TRUE, "", NotApplied)
    /\ UNCHANGED << A, R, config_ >>
    /\ UNCHANGED cacheVars
    /\ UNCHANGED keyVars
    /\ UNCHANGED nameVars
    /\ UNCHANGED lockVars

(* if (processor->isNoOp()) return ImageBufAlgo::copy(dst, src, ...);      *)
ConvertNoOpCopy ==
    /\ Pending
    /\ call.processor # NullProcessor
    /\ isNoOp(call.processor)
    /\ ~call.same
    /\ R' = copy(R, A, call.chend)
    /\ call' = Done("noop-copy", TRUE, "", NotApplied)
    /\ UNCHANGED << A, config_ >>
    /\ UNCHANGED cacheVars
    /\ UNCHANGED keyVars
    /\ UNCHANGED nameVars
    /\ UNCHANGED lockVars

(* The unpremult argument after the test for unassociated alpha: the       *)
(* source has an alpha channel when it has four channels or more.          *)
EffectiveUnpremult ==
    call.unpremult /\ ~(call.nchannels >= 4 /\ call.unassociated)

(* Both buffers local, float, four channels.                               *)
TakesFloatRGBA == call.localpixels /\ call.nchannels = 4

ConvertFloatRGBA ==
    /\ Pending
    /\ call.processor # NullProcessor
    /\ ~isNoOp(call.processor)
    /\ TakesFloatRGBA
    /\ LET k == colorconvert_impl_float_rgba(R, A, call.processor,
                                             EffectiveUnpremult)
       IN  /\ R' = k.R
           /\ A' = IF call.same THEN k.R ELSE A
           /\ call' = Done("float_rgba", TRUE, "", Applied(k))
    /\ UNCHANGED << config_ >>
    /\ UNCHANGED cacheVars
    /\ UNCHANGED keyVars
    /\ UNCHANGED nameVars
    /\ UNCHANGED lockVars

(* OIIO_DISPATCH_COMMON_TYPES2(..., colorconvert_impl, ...)                *)
ConvertGeneric ==
    /\ Pending
    /\ call.processor # NullProcessor
    /\ ~isNoOp(call.processor)
    /\ ~TakesFloatRGBA
    /\ LET k == colorconvert_impl(R, A, call.processor, EffectiveUnpremult,
                                  call.chend, call.same)
       IN  /\ R' = k.R
           /\ A' = IF call.same THEN k.R ELSE A
           /\ call' = Done("generic", TRUE, "", Applied(k))
    /\ UNCHANGED << config_ >>
    /\ UNCHANGED cacheVars
    /\ UNCHANGED keyVars
    /\ UNCHANGED nameVars
    /\ UNCHANGED lockVars

(* if (alpha > fltmin) { rgba[0] /= alpha; ... } of colorconvert(span).    *)
SpanDivide(v) ==
    IF v[4] > FltMin
    THEN << fdiv(v[1], v[4]), fdiv(v[2], v[4]), fdiv(v[3], v[4]), v[4] >>
    ELSE v

(* float alpha = rgba[3]; if (alpha > fltmin) { rgba[0] *= alpha; ... }    *)
(* of colorconvert(span), on the pixel as apply returned it.               *)
SpanMultiply(v) ==
    IF v[4] > FltMin
    THEN << fmul(v[1], v[4]), fmul(v[2], v[4]), fmul(v[3], v[4]), v[4] >>
    ELSE v

(* ImageBufAlgo::colorconvert(span<float> color, processor, unpremult).    *)
colorconvert_span(color, processor, unpremult) ==
    IF processor = NullProcessor
    THEN [ ret |-> FALSE, color |-> color, applied |-> FALSE,
           unpremult |-> FALSE, toproc |-> << >>, fromproc |-> << >> ]
    ELSE IF isNoOp(processor)
    THEN [ ret |-> TRUE, color |-> color, applied |-> FALSE,
           unpremult |-> FALSE, toproc |-> << >>, fromproc |-> << >> ]
    ELSE LET channelsToCopy == Min(4, Len(color))
             rgba == [ c \in 1..4 |->
                         IF c <= channelsToCopy THEN color[c] ELSE 0 ]
             up   == channelsToCopy >= 4 /\ unpremult
             tp   == IF up THEN SpanDivide(rgba) ELSE rgba
             fp   == apply(processor, tp)
             out  == IF up THEN SpanMultiply(fp) ELSE fp
         IN  [ ret |-> TRUE,
               color |-> [ c \in 1..Len(color) |->
                             IF c <= channelsToCopy THEN out[c]
                             ELSE color[c] ],
               applied |-> TRUE, unpremult |-> up,
               toproc |-> << tp >>, fromproc |-> << fp >> ]

(* The arguments of one colorconvert(span) call: the span is the first     *)
(* pixel of A (R is the same buffer).                                      *)
SpanInit ==
    \E n \in ChannelCounts, al \in [ 1..Width -> Alphas ] :
    \E processor \in Processors, unpremult \in BOOLEAN :
        /\ A = [ i \in 1..Width |-> SrcPixel(n, al[i]) ]
        /\ R = A
        /\ call = [ kind |-> "span", state |-> "pending",
                    nchannels |-> n, chend |-> n,
                    processor |-> processor, unpremult |-> unpremult,
                    same |-> TRUE, localpixels |-> TRUE,
                    unassociated |-> FALSE ]

ConvertSpan ==
    /\ call.kind = "span"
    /\ call.state = "pending"
    /\ LET k == colorconvert_span(A[1], call.processor, call.unpremult)
       IN  /\ A' = [ A EXCEPT ![1] = k.color ]
           /\ R' = [ A EXCEPT ![1] = k.color ]
           /\ call' = [ Done("span", k.ret, "", k) EXCEPT !.kind = "span" ]
    /\ UNCHANGED << config_ >>
    /\ UNCHANGED cacheVars
    /\ UNCHANGED keyVars
    /\ UNCHANGED nameVars
    /\ UNCHANGED lockVars

ImageNext ==
    \/ ConvertNull
    \/ ConvertNoOpInPlace
    \/ ConvertNoOpCopy
    \/ ConvertFloatRGBA
    \/ ConvertGeneric
    \/ ConvertSpan

SpecImageInit ==
    /\ config_ \in BOOLEAN
    /\ (ImageInit \/ SpanInit)
    /\ LockIdle
    /\ CacheIdle
    /\ KeyIdle
    /\ NamesIdle

SpecImage == SpecImageInit /\ [][ImageNext]_vars

-----------------------------------------------------------------------------
(* SpecInit: ColorConfig::Impl::init(filename), statement by statement.    *)
(* op holds the position, the arguments and the environment (the value of  *)
(* $OCIO, whether the file named exists, what the engine does with each    *)
(* request, the engine's current configuration), the filename as init      *)
(* rewrites it, and where config_ came from.                               *)

InlineText == "ocio_profile_version: 2\nroles: {}\n"

Filenames == { "", "$OCIO", "a.ocio", "ocio://default", InlineText }

(* filename.find('\n') != npos                                             *)
HasNewline(filename) == filename = InlineText

(* Strutil::istarts_with(filename, "ocio://")                              *)
IsOcioUri(filename) == filename = "ocio://default"

NoConfig == "<null>"

InitStart ==
    \E filename \in Filenames, env \in {"", "a.ocio"}, exists \in BOOLEAN :
    \E builtin_ok \in BOOLEAN, interop_ok \in BOOLEAN :
    \E stream_ok \in BOOLEAN, file_ok \in BOOLEAN :
    \E current_spaces \in {1, 2}, loaded \in Loaded, ident \in BOOLEAN :
        /\ config_ = FALSE
        /\ colorspaces = << >>
        /\ aliases = NoAliases
        /\ identifies = ident
        /\ op = [ name |-> "init", crashed |-> FALSE, given |-> filename,
                  filename |-> filename, env |-> env, exists |-> exists,
                  builtin_ok |-> builtin_ok, interop_ok |-> interop_ok,
                  stream_ok |-> stream_ok, file_ok |-> file_ok,
                  current_spaces |-> current_spaces, loaded |-> loaded,
                  source |-> NoConfig ]

InitFrame ==
    /\ UNCHANGED << colorprocmap, colorprocs_requested, colorprocs_created,
                    compiles, nextproc, pc, req, key, handle, outcome,
                    budget, installed, last, prev >>
    /\ UNCHANGED keyVars
    /\ UNCHANGED imageVars
    /\ UNCHANGED lockVars

(* builtinconfig_ and interopconfig_ are created, each in its own try.     *)
InitBuiltinConfigs ==
    /\ op.name = "init"
    /\ m_error' = IF ~op.interop_ok
                  THEN "Error making OCIO interop identities config"
                  ELSE IF ~op.builtin_ok
                  THEN "Error making OCIO built-in config"
                  ELSE m_error
    /\ op' = [ op EXCEPT !.name = "configs" ]
    /\ UNCHANGED << config_, colorspaces, aliases, identifies >>
    /\ InitFrame

(* An empty filename or "$OCIO" is replaced by the environment's $OCIO,    *)
(* and an empty result of that by "ocio://default".                        *)
InitFilename ==
    /\ op.name = "configs"
    /\ LET f1 == IF op.filename = "" \/ iequals(op.filename, "$OCIO")
                 THEN op.env ELSE op.filename
           f2 == IF f1 = "" THEN "ocio://default" ELSE f1
       IN  op' = [ op EXCEPT !.name = "filename", !.filename = f2 ]
    /\ UNCHANGED << config_, colorspaces, aliases, identifies, m_error >>
    /\ InitFrame

(* if (filename.find('\n') != npos) { config_ = CreateFromStream(iss) }    *)
InitStream ==
    /\ op.name = "filename"
    /\ IF HasNewline(op.filename)
       THEN IF op.stream_ok
            THEN /\ op' = [ op EXCEPT !.name = "stream", !.source = "stream" ]
                 /\ config_' = TRUE
                 /\ UNCHANGED m_error
            ELSE /\ op' = [ op EXCEPT !.name = "stream" ]
                 /\ m_error' = "Error reading OCIO config from stream"
                 /\ UNCHANGED config_
       ELSE /\ op' = [ op EXCEPT !.name = "stream" ]
            /\ UNCHANGED << config_, m_error >>
    /\ UNCHANGED << colorspaces, aliases, identifies >>
    /\ InitFrame

(* if (filename.size() && !exists(filename) && !istarts_with(filename,     *)
(* "ocio://")) error(...) else { config_ = CreateFromFile(filename) }      *)
InitFile ==
    /\ op.name = "stream"
    /\ IF op.filename # "" /\ ~op.exists /\ ~IsOcioUri(op.filename)
       THEN /\ m_error' = "Requested non-existent OCIO config"
            /\ op' = [ op EXCEPT !.name = "file" ]
            /\ UNCHANGED config_
       ELSE IF op.file_ok
            THEN /\ op' = [ op EXCEPT !.name = "file", !.source = "file" ]
                 /\ config_' = TRUE
                 /\ UNCHANGED m_error
            ELSE /\ op' = [ op EXCEPT !.name = "file" ]
                 /\ m_error' = "Error reading OCIO config"
                 /\ UNCHANGED config_
    /\ UNCHANGED << colorspaces, aliases, identifies >>
    /\ InitFrame

(* if (!config_): the engine's current configuration, or ocio://default    *)
(* when that one has a single space; CreateFromFile is outside any try     *)
(* here, so its exception leaves init.                                     *)
InitCurrent ==
    /\ op.name = "file"
    /\ IF config_
       THEN op' = [ op EXCEPT !.name = "current" ]
       ELSE IF op.current_spaces = 1
            THEN IF op.builtin_ok
                 THEN op' = [ op EXCEPT !.name = "current",
                                        !.source = "ocio://default" ]
                 ELSE op' = [ op EXCEPT !.name = "threw", !.crashed = TRUE ]
            ELSE op' = [ op EXCEPT !.name = "current", !.source = "current" ]
    /\ config_' = (op'.source # NoConfig)
    /\ UNCHANGED << colorspaces, aliases, identifies, m_error >>
    /\ InitFrame

(* inventory(); identify_builtin_equivalents(); return ok.                 *)
InitInventory ==
    /\ op.name = "current"
    /\ \E disable_ocio \in BOOLEAN :
          LET c == Construct(op.loaded, disable_ocio, identifies)
          IN  /\ colorspaces' = c.rg.cs
              /\ aliases' = c.rg.al
              /\ config_' = c.config
              /\ op' = [ op EXCEPT !.name = "constructed",
                            !.source = IF c.config THEN @ ELSE NoConfig ]
    /\ UNCHANGED << identifies, m_error >>
    /\ InitFrame

InitNext ==
    \/ InitBuiltinConfigs
    \/ InitFilename
    \/ InitStream
    \/ InitFile
    \/ InitCurrent
    \/ InitInventory

SpecInitInit ==
    /\ InitStart
    /\ CacheIdle
    /\ KeyIdle
    /\ ImageIdle
    /\ LockIdle

SpecInit == SpecInitInit /\ [][InitNext]_vars

-----------------------------------------------------------------------------
(* SpecEntry: one call of a build-then-apply entry point of ImageBufAlgo   *)
(* (colorconvert by names, ociolook, ociodisplay, ociofiletransform,       *)
(* ocionamedtransform).  call holds the arguments and, afterwards, the     *)
(* value of the colorconfig pointer at its first use, the value returned   *)
(* and the destination's error message.                                    *)

EntryPoints ==
    { "colorconvert", "ociolook", "ociodisplay", "ociofiletransform",
      "ocionamedtransform" }

(* The colorconfig argument: null or the caller's instance; after the      *)
(* substitution, the default instance.                                     *)
NullColorConfig == "<nullptr>"

GivenColorConfig == "given"

DefaultColorConfig == "default_colorconfig"

(* No use of the configuration was made.                                   *)
NoUse == "<no use>"

SpaceArgs == { "", "current", "a" }

(* from.empty() || from == "current"                                       *)
IsCurrent(name) == name = "" \/ name = "current"

(* if (!colorconfig) colorconfig = &ColorConfig::default_colorconfig();    *)
Substitute(colorconfig) ==
    IF colorconfig = NullColorConfig THEN DefaultColorConfig ELSE colorconfig

(* The entry point's statements up to the request for a processor: the     *)
(* colorconfig pointer at the first call made through it (NoUse when the   *)
(* function returns before any), and the error it returns with, if any.    *)
(* attr is the source's oiio:ColorSpace attribute.                         *)
colorconvert_names(colorconfig, from, to, attr) ==
    LET f == IF IsCurrent(from)
             THEN (IF attr = "" THEN "scene_linear" ELSE attr) ELSE from
    IN  IF f = "" \/ to = ""
        THEN [ first_use |-> NoUse, err |-> "Unknown color space name",
               colorconfig |-> colorconfig ]
        ELSE [ first_use |-> Substitute(colorconfig), err |-> "",
               colorconfig |-> Substitute(colorconfig) ]

ociolook(colorconfig, from, to, attr) ==
    IF IsCurrent(from) \/ IsCurrent(to)
    THEN [ first_use |-> colorconfig, err |-> "",
           colorconfig |-> Substitute(colorconfig) ]
    ELSE [ first_use |-> Substitute(colorconfig), err |-> "",
           colorconfig |-> Substitute(colorconfig) ]

ociodisplay(colorconfig, from, attr) ==
    [ first_use |-> Substitute(colorconfig), err |-> "",
      colorconfig |-> Substitute(colorconfig) ]

ociofiletransform(colorconfig, name) ==
    IF name = ""
    THEN [ first_use |-> NoUse, err |-> "Unknown filetransform name",
           colorconfig |-> colorconfig ]
    ELSE [ first_use |-> Substitute(colorconfig), err |-> "",
           colorconfig |-> Substitute(colorconfig) ]

ocionamedtransform(colorconfig, name) ==
    [ first_use |-> Substitute(colorconfig), err |-> "",
      colorconfig |-> Substitute(colorconfig) ]

EntryInit ==
    \E kind \in EntryPoints :
    \E colorconfig \in { NullColorConfig, GivenColorConfig } :
    \E from \in SpaceArgs, to \in SpaceArgs, name \in { "", "x" } :
    \E attr \in { "", "a" }, built \in BOOLEAN :
        /\ A = [ i \in 1..Width |-> SrcPixel(3, 0) ]
        /\ R = [ i \in 1..Width |-> DstPixel(3) ]
        /\ call = [ kind |-> kind, state |-> "pending",
                    colorconfig |-> colorconfig, from |-> from, to |-> to,
                    name |-> name, attr |-> attr, built |-> built ]

(* The rest of an entry point: a call through a null colorconfig is        *)
(* undefined (crashed); an empty processor gives the configuration's       *)
(* message and false; otherwise colorconvert(dst, src, processor) runs,    *)
(* here with a processor that doubles the colour channels.                 *)
EntryDone(k) ==
    LET crashed == k.first_use = NullColorConfig
        ok      == ~crashed /\ k.err = "" /\ call.built
        res     == colorconvert_impl(R, A, "gain", FALSE, 3, FALSE)
    IN  /\ call' = [ kind |-> call.kind, state |-> "done",
                     colorconfig |-> call.colorconfig, from |-> call.from,
                     to |-> call.to, name |-> call.name, attr |-> call.attr,
                     built |-> call.built, first_use |-> k.first_use,
                     used |-> k.colorconfig, crashed |-> crashed,
                     ret |-> ok,
                     err |-> IF crashed THEN ""
                             ELSE IF k.err # "" THEN k.err
                             ELSE IF ~call.built
                             THEN "Could not construct the color transform"
                             ELSE "" ]
        /\ R' = IF ok THEN res.R ELSE R
        /\ UNCHANGED << A, config_ >>
        /\ UNCHANGED cacheVars
        /\ UNCHANGED keyVars
        /\ UNCHANGED nameVars
        /\ UNCHANGED lockVars

EntryPending(kind) == call.kind = kind /\ call.state = "pending"

ColorconvertNames ==
    /\ EntryPending("colorconvert")
    /\ EntryDone(colorconvert_names(call.colorconfig, call.from, call.to,
                                    call.attr))

OcioLook ==
    /\ EntryPending("ociolook")
    /\ EntryDone(ociolook(call.colorconfig, call.from, call.to, call.attr))

OcioDisplay ==
    /\ EntryPending("ociodisplay")
    /\ EntryDone(ociodisplay(call.colorconfig, call.from, call.attr))

OcioFileTransform ==
    /\ EntryPending("ociofiletransform")
    /\ EntryDone(ociofiletransform(call.colorconfig, call.name))

OcioNamedTransform ==
    /\ EntryPending("ocionamedtransform")
    /\ EntryDone(ocionamedtransform(call.colorconfig, call.name))

EntryNext ==
    \/ ColorconvertNames
    \/ OcioLook
    \/ OcioDisplay
    \/ OcioFileTransform
    \/ OcioNamedTransform

SpecEntryInit ==
    /\ config_ = TRUE
    /\ EntryInit
    /\ CacheIdle
    /\ KeyIdle
    /\ NamesIdle
    /\ LockIdle

SpecEntry == SpecEntryInit /\ [][EntryNext]_vars

-----------------------------------------------------------------------------
(* SpecExamine: threads call Impl::flags(name) on entries of a constructed *)
(* registry; flags calls examine, which classifies an entry the first time *)
(* under m_mutex.  pc is the thread's position, req the entry it asked     *)
(* for, last what its call returned.                                       *)

ExamCalls == 2

(* Whether the engine's isColorSpaceLinear answers or throws.              *)
LinearAnswers == { "linear", "nonlinear", "throws" }

(* A faulty second test of examine: the entry is taken as not examined.    *)
examined_locked_skip(cs) == FALSE

(* if (!cs->examined) under the write lock.                                *)
examined_locked(cs) == cs.examined

(* if (!cs->examined) before the lock is taken: the read races with the    *)
(* write made under the lock, so it yields the value stored or the value   *)
(* from before that write.                                                 *)
examined_unlocked(cs) == { cs.examined, FALSE }

EntryOf(t) == req[t].entry

Position(t, where) == [ pc EXCEPT ![t] = where ]

ExamineInit ==
    \E loaded \in Loaded, disable_ocio \in BOOLEAN, ident \in BOOLEAN :
        LET c == Construct(loaded, disable_ocio, ident)
        IN  /\ config_ = c.config
            /\ colorspaces = c.rg.cs
            /\ aliases = c.rg.al
            /\ identifies = ident
            /\ op = [ name |-> None, crashed |-> FALSE ]
            /\ m_mutex = NoHolder
            /\ passes = [ i \in 1..Len(c.rg.cs) |-> 0 ]
            /\ CacheInit({"t1", "t2"}, ExamCalls)

(* flags(name): find(name) gave entry i; examine(cs) starts with the       *)
(* test made without the lock.                                             *)
FlagsCall(t, i) ==
    /\ pc[t] = "idle"
    /\ budget > 0
    /\ i \in 1..Len(colorspaces)
    /\ budget' = budget - 1
    /\ req' = [ req EXCEPT ![t] = [ kind |-> "flags", entry |-> i ] ]
    /\ \E seen \in examined_unlocked(colorspaces[i]) :
          pc' = Position(t, IF seen THEN "read" ELSE "lock")
    /\ UNCHANGED << config_, colorprocmap, colorprocs_requested,
                    colorprocs_created, m_error, compiles, nextproc, key,
                    handle, outcome, installed, last, prev >>
    /\ UNCHANGED nameVars
    /\ UNCHANGED keyVars
    /\ UNCHANGED imageVars
    /\ UNCHANGED lockVars

ExamineFrame ==
    /\ UNCHANGED << config_, colorprocmap, colorprocs_requested,
                    colorprocs_created, m_error, compiles, nextproc, req, key,
                    handle, outcome, budget, installed, prev >>
    /\ UNCHANGED << identifies, op >>
    /\ UNCHANGED keyVars
    /\ UNCHANGED imageVars

(* spin_rw_write_lock lock(m_mutex); if (!cs->examined) ...                *)
ExamineLock(t) ==
    /\ pc[t] = "lock"
    /\ m_mutex = NoHolder
    /\ IF examined_locked(colorspaces[EntryOf(t)])
       THEN /\ pc' = Position(t, "read")
            /\ m_mutex' = NoHolder
       ELSE /\ pc' = Position(t, "name")
            /\ m_mutex' = t
    /\ UNCHANGED << colorspaces, aliases, passes, last >>
    /\ ExamineFrame

(* classify_by_name on the entry; classify_by_conversions returns at once  *)
(* when the name settled the entry, and calls isColorSpaceLinear if not.   *)
ExamineName(t) ==
    /\ pc[t] = "name"
    /\ LET i == EntryOf(t)
           r == classify_by_name(Registry(colorspaces, aliases), i)
       IN  /\ colorspaces' = r.cs
           /\ aliases' = r.al
           /\ passes' = [ passes EXCEPT ![i] = @ + 1 ]
           /\ pc' = Position(t, IF r.cs[i].examined THEN "finish"
                                ELSE "linear")
    /\ UNCHANGED << m_mutex, last >>
    /\ ExamineFrame

(* isColorSpaceLinear(cs.name) inside classify_by_conversions: the engine  *)
(* is asked when there is a configuration, and an exception it throws is   *)
(* caught and reported with error(), which takes m_mutex for writing.      *)
ExamineLinear(t) ==
    /\ pc[t] = "linear"
    /\ LET i  == EntryOf(t)
           rg == Registry(colorspaces, aliases)
       IN  \E answer \in LinearAnswers :
              LET lin == IF config_ THEN answer = "linear"
                         ELSE LinearByName(colorspaces[i].name)
                  r   == IF lin
                         THEN setflag_bits(rg, i, {"is_linear_response"})
                         ELSE rg
              IN  IF config_ /\ answer = "throws"
                  THEN /\ pc' = Position(t, "error")
                       /\ UNCHANGED << colorspaces, aliases >>
                  ELSE /\ pc' = Position(t, "probe")
                       /\ colorspaces' = r.cs
                       /\ aliases' = r.al
    /\ UNCHANGED << m_mutex, passes, last >>
    /\ ExamineFrame

(* error(): spin_rw_write_lock lock(m_mutex); m_error = ...; then          *)
(* isColorSpaceLinear returns false.  The lock is not re-entrant: while it *)
(* is held, by whomever, the thread spins.                                 *)
ExamineError(t) ==
    /\ pc[t] \in {"error", "spin"}
    /\ IF m_mutex = NoHolder
       THEN /\ pc' = Position(t, "probe")
            /\ m_error' = "ColorConfig error"
       ELSE /\ pc' = Position(t, "spin")
            /\ UNCHANGED m_error
    /\ UNCHANGED << config_, colorprocmap, colorprocs_requested,
                    colorprocs_created, compiles, nextproc, req, key,
                    handle, outcome, budget, installed, last, prev >>
    /\ UNCHANGED nameVars
    /\ UNCHANGED keyVars
    /\ UNCHANGED imageVars
    /\ UNCHANGED lockVars

(* classify_by_conversions from the test of is_known on: the engine is     *)
(* probed for a built-in equivalent and the canonical name is set.         *)
ExamineProbe(t) ==
    /\ pc[t] = "probe"
    /\ LET i  == EntryOf(t)
           rg == Registry(colorspaces, aliases)
       IN  \E match \in EngineMatches :
              LET r == classify_by_conversions(rg, i, config_, FALSE, match)
              IN  /\ colorspaces' = r.cs
                  /\ aliases' = r.al
    /\ pc' = Position(t, "finish")
    /\ UNCHANGED << m_mutex, passes, last >>
    /\ ExamineFrame

(* reclassify_heuristics; cs->examined = true; the lock is released.       *)
ExamineFinish(t) ==
    /\ pc[t] = "finish"
    /\ LET i == EntryOf(t)
           r == reclassify_heuristics(Registry(colorspaces, aliases), i)
       IN  /\ colorspaces' = [ r.cs EXCEPT ![i].examined = TRUE ]
           /\ aliases' = r.al
    /\ m_mutex' = NoHolder
    /\ pc' = Position(t, "read")
    /\ UNCHANGED << passes, last >>
    /\ ExamineFrame

(* spin_rw_read_lock lock(m_mutex); return cs->flags();                    *)
FlagsRead(t) ==
    /\ pc[t] = "read"
    /\ m_mutex = NoHolder
    /\ last' = [ last EXCEPT ![t] =
                   [ kind |-> "flags", entry |-> EntryOf(t),
                     ret |-> colorspaces[EntryOf(t)].m_flags ] ]
    /\ pc' = Position(t, "idle")
    /\ UNCHANGED << colorspaces, aliases, passes, m_mutex >>
    /\ ExamineFrame

ExamineNext ==
    \E t \in Threads :
        \/ \E i \in 1..Len(colorspaces) : FlagsCall(t, i)
        \/ ExamineLock(t)
        \/ ExamineName(t)
        \/ ExamineLinear(t)
        \/ ExamineError(t)
        \/ ExamineProbe(t)
        \/ ExamineFinish(t)
        \/ FlagsRead(t)

SpecExamineInit ==
    /\ ExamineInit
    /\ KeyIdle
    /\ ImageIdle

SpecExamine == SpecExamineInit /\ [][ExamineNext]_vars

-----------------------------------------------------------------------------
(* Properties of the processor cache and the create* functions.            *)

Compiled == {"ok", "noop"}
Failed   == EngineMsgs \cup {"unknown"}

(* C1: on one ColorConfig, two sequential createColorProcessor calls with  *)
(* the same input space, output space, context key and context value, the  *)
(* first of which compiled a non-empty processor, return the same handle,  *)
(* and the second is a cache hit that does not invoke the engine.          *)
C1_SequentialSameHandle ==
    \A t \in Threads :
        ( /\ prev[t].kind = "color"
          /\ last[t].kind = "color"
          /\ prev[t].req = last[t].req
          /\ prev[t].outcome \in Compiled
          /\ prev[t].ret # EmptyHandle )
        => ( /\ last[t].ret = prev[t].ret
             /\ last[t].outcome = "hit"
             /\ ~last[t].compiled )

C1_Witness ==
    \E t \in Threads :
        /\ prev[t].kind = "color"
        /\ last[t].kind = "color"
        /\ prev[t].req = last[t].req
        /\ prev[t].outcome = "ok"
        /\ last[t].outcome = "hit"
        /\ last[t].ret = prev[t].ret
        /\ last[t].ret # EmptyHandle

(* C2: when two threads serve the same request, each misses the cache and  *)
(* each compiles its own non-empty processor, the cache holds exactly one  *)
(* entry for the key and both callers return the handle that was           *)
(* installed first; the later compilation is not returned to anyone.       *)
C2_FirstInstalledWins ==
    \A t \in Threads : \A u \in Threads \ {t} :
        ( /\ last[t].kind # None
          /\ last[u].kind # None
          /\ last[t].outcome \in Compiled
          /\ last[u].outcome \in Compiled
          /\ KeyEq(last[t].key, last[u].key) )
        => ( /\ Cardinality(MapFind(colorprocmap, last[t].key)) = 1
             /\ last[t].key \in DOMAIN installed
             /\ findproc(colorprocmap, last[t].key) = installed[last[t].key]
             /\ last[t].ret = installed[last[t].key]
             /\ last[u].ret = installed[last[t].key] )

C2_Witness ==
    \E t \in Threads : \E u \in Threads \ {t} :
        /\ last[t].kind # None
        /\ last[u].kind # None
        /\ last[t].outcome = "ok"
        /\ last[u].outcome = "ok"
        /\ last[t].req = last[u].req
        /\ last[t].ret = last[u].ret
        /\ last[t].ret # EmptyHandle
        /\ compiles = 2
        /\ Cardinality(DOMAIN colorprocmap) = 1

-----------------------------------------------------------------------------
(* Properties of ColorProcCacheKey (SpecKey).                              *)

KeysBuilt == k1 # NoKey /\ k2 # NoKey

(* C5: requests of different kinds (conversion, look, display/view, file,  *)
(* named transform) never produce equal cache keys, whatever their string  *)
(* arguments, including one string used as a file path and as a named      *)
(* transform name.                                                         *)
C5_KindsNeverShareKey ==
    ( KeysBuilt /\ rq1.kind # rq2.kind ) => ~KeyEq(k1, k2)

(* C6: two keys compare equal if and only if all ten fields they were      *)
(* built from are equal; in particular two display/view requests that      *)
(* differ in display or view have unequal keys.                            *)
C6_KeyEqIffFieldsEqual ==
    KeysBuilt =>
        ( KeyEq(k1, k2) <=> ArgsOf(rq1, config_) = ArgsOf(rq2, config_) )

-----------------------------------------------------------------------------
(* Properties of the name queries (SpecNames).                             *)

Fallback == ~config_

(* C7: for every non-empty name and every state of the instance, engine    *)
(* configuration or fallback inventory, resolve completes and returns a    *)
(* non-empty string, the name itself when nothing matches.                 *)
C7_ResolveTotal ==
    (op.name = "resolve" /\ op.arg # "")
        => /\ ~op.crashed
           /\ op.result # ""
           /\ (op.arg = "nosuch" => op.result = op.arg)

(* C8: in every registry state equivalent(s, s) holds for non-empty s,     *)
(* equivalent(a, b) = equivalent(b, a), and it is false when a name is     *)
(* empty.                                                                  *)
C8_EquivalentReflexiveSymmetric ==
    op.name = "equivalent"
        => /\ ~op.crashed
           /\ (op.a = op.b /\ op.a # "" => op.result)
           /\ op.result = op.swapped
           /\ (op.a = "" \/ op.b = "" => ~op.result)

(* C9 as stated: constructed with no configuration available,              *)
(* getNumColorSpaces() returns 10.                                         *)
C9_FallbackCountTen ==
    (Fallback /\ op.name = "getNumColorSpaces") => op.result = 10

(* C9: constructed with no configuration available, getNumColorSpaces()    *)
(* returns 11, the number of names the fallback inventory registers.       *)
C9_FallbackCountEleven ==
    (Fallback /\ op.name = "getNumColorSpaces") => op.result = 11

C9_Witness ==
    /\ Fallback
    /\ op.name = "getNumColorSpaces"
    /\ op.result = Len(colorspaces)
    /\ \E i \in 1..Len(colorspaces) : colorspaces[i].name = "RGB"

(* C10: get_cicp(name) returns the code the table stores for the interop   *)
(* id get_color_interop_id(name) yields, {1, 13, 1, 1} for                 *)
(* "srgb_rec709_display", and the empty result when that id is empty,      *)
(* not in the table or listed without a code.                              *)
C10_CicpFromTable ==
    op.name = "get_cicp"
        => /\ ~op.crashed
           /\ op.result = cicp_lookup(op.id)
           /\ (op.arg = "srgb_rec709_display"
                  => op.result = << 1, 13, 1, 1 >>)

-----------------------------------------------------------------------------
(* Properties of ImageBufAlgo::colorconvert (SpecImage).                   *)

Finished == call.kind = "colorconvert" /\ call.state = "done"

(* The first four channels of a pixel, absent ones as 0.                   *)
RGBA(px) == [ c \in 1..4 |-> IF c <= Len(px) THEN px[c] ELSE 0 ]

(* v with its colour channels divided by a.                                *)
DividedBy(v, a) == << fdiv(v[1], a), fdiv(v[2], a), fdiv(v[3], a), v[4] >>

(* v with its colour channels multiplied by a.                             *)
MultipliedBy(v, a) == << fmul(v[1], a), fmul(v[2], a), fmul(v[3], a), v[4] >>

(* C11: with a processor that reports isNoOp, an in-place call leaves the  *)
(* buffer unchanged, a call with a different destination makes it an       *)
(* exact copy of the source over the region, and apply is not invoked.     *)
C11_NoOpLeavesOrCopies ==
    (Finished /\ isNoOp(call.processor))
        => /\ ~call.applied
           /\ call.ret
           /\ A = call.src0
           /\ (call.same => R = call.dst0)
           /\ (~call.same =>
                 \A i \in 1..Width : \A c \in 1..call.chend :
                    R[i][c] = call.src0[i][c])

C11_Witness ==
    /\ Finished
    /\ isNoOp(call.processor)
    /\ ~call.same
    /\ R # call.dst0
    /\ call.chend = call.nchannels
    /\ R = A

(* C12 as stated: with unpremultiply in effect, a pixel whose alpha is at  *)
(* or below the smallest positive value is neither divided nor multiplied  *)
(* by its alpha, and one whose alpha is strictly above it is divided by    *)
(* its alpha before the transform.                                         *)
C12_ThresholdInclusive ==
    (Finished /\ call.applied /\ call.effective)
        => \A i \in 1..Width :
              LET v == RGBA(call.src0[i])
              IN  /\ v[4] <= FltMin =>
                        /\ call.toproc[i] = v
                        /\ RGBA(R[i]) = call.fromproc[i]
                  /\ v[4] > FltMin =>
                        call.toproc[i] = DividedBy(v, v[4])

(* C12: with unpremultiply in effect, a pixel whose alpha is strictly      *)
(* below the smallest positive normalised value is neither divided nor     *)
(* multiplied by its alpha, and one whose alpha is at or above it is       *)
(* divided by its alpha before the transform and multiplied by it after.   *)
C12_ThresholdExclusive ==
    (Finished /\ call.applied /\ call.effective)
        => \A i \in 1..Width :
              LET v == RGBA(call.src0[i])
              IN  /\ v[4] < FltMin =>
                        /\ call.toproc[i] = v
                        /\ RGBA(R[i]) = call.fromproc[i]
                  /\ v[4] >= FltMin =>
                        /\ call.toproc[i] = DividedBy(v, v[4])
                        /\ RGBA(R[i]) = MultipliedBy(call.fromproc[i], v[4])

C12_Witness ==
    /\ Finished
    /\ call.applied
    /\ call.effective
    /\ call.src0[1][4] = FltMin
    /\ call.toproc[1] # RGBA(call.src0[1])
    /\ call.src0[2][4] = 0
    /\ call.toproc[2] = RGBA(call.src0[2])

(* C13: for a region of exactly one channel the generic kernel hands each  *)
(* pixel to the processor with channel 0 in all three colour channels and  *)
(* writes back channel 0 of the result only; for a region of fewer than    *)
(* four channels it runs with unpremultiply off even if requested.         *)
C13_SingleChannelBroadcast ==
    (Finished /\ call.path = "generic")
        => /\ call.chend = 1 =>
                 \A i \in 1..Width :
                    LET s == call.src0[i][1]
                    IN  /\ call.toproc[i] = << s, s, s, 0 >>
                        /\ R[i][1] = call.fromproc[i][1]
                        /\ \A c \in 2..call.nchannels :
                              R[i][c] = call.dst0[i][c]
           /\ call.chend < 4 => ~call.effective

C13_Witness ==
    /\ Finished
    /\ call.path = "generic"
    /\ call.chend = 1
    /\ call.nchannels = 3
    /\ call.unpremult
    /\ ~call.same
    /\ call.processor = "gain"
    /\ R[1] = << 2 * call.src0[1][1], DstFill, DstFill >>

(* C14: on a region of more than four channels with a destination that is  *)
(* not the source, every destination channel from the fifth on equals the  *)
(* source channel unaltered.                                               *)
C14_LeftoverChannelsUnaltered ==
    (Finished /\ call.applied /\ ~call.same /\ call.chend > 4)
        => \A i \in 1..Width : \A c \in 5..call.chend :
              R[i][c] = call.src0[i][c]

(* C15: for a four-channel float in-memory input, the float-RGBA routine   *)
(* gives the destination pixels the generic routine gives for the same     *)
(* region.                                                                 *)
C15_FloatRGBAMatchesGeneric ==
    (Finished /\ call.path = "float_rgba")
        => R = colorconvert_impl(call.dst0, call.src0, call.processor,
                                 call.effective, call.chend, call.same).R

(* C16: with a null processor colorconvert returns false and records an    *)
(* error on the destination only: the pixels, the ColorConfig error slot   *)
(* and the processor cache stay as they were.                              *)
C16_NullProcessorLocalError ==
    (Finished /\ call.processor = NullProcessor)
        => /\ ~call.ret
           /\ call.err # ""
           /\ ~call.applied
           /\ R = call.dst0
           /\ A = call.src0
           /\ m_error = ""
           /\ colorprocmap = EmptyMap
           /\ colorprocs_requested = 0
           /\ colorprocs_created = 0

C16_Witness ==
    /\ Finished
    /\ call.processor = NullProcessor
    /\ ~call.same
    /\ call.err = NullProcessorMsg
    /\ R[1] = DstPixel(call.nchannels)

-----------------------------------------------------------------------------
(* Properties of the error slot and of createMatrixTransform (SpecError).  *)

GetErrorStep == op' # op /\ op'.name = "geterror"

ReadAndClear == GetErrorStep /\ op'.clear /\ m_error' = ""

CompileStep(t) == pc[t] = "compile" /\ pc'[t] = "add"

FailingCompile ==
    \E t \in Threads :
        /\ CompileStep(t)
        /\ outcome'[t] \in Failed
        /\ m_error' = IF outcome'[t] = "unknown" THEN UnknownMsg
                      ELSE outcome'[t]

SucceedingCompile ==
    \E t \in Threads :
        /\ CompileStep(t)
        /\ outcome'[t] \in Compiled
        /\ m_error' = ""

ReadsAsSpecified ==
    GetErrorStep
        => /\ op'.result = m_error
           /\ op'.clear => (m_error' = "" /\ ~op'.has_error)
           /\ ~op'.clear => m_error' = m_error

(* C17 as stated: the error slot holds the message of the most recent      *)
(* failing operation until it is read with clear=true or overwritten by a  *)
(* later failing operation; geterror(false) leaves it in place, and an     *)
(* operation that succeeds does not remove it.                             *)
C17_StickyUntilReadOrFailure ==
    [][ /\ (m_error # "" /\ m_error' # m_error)
            => (ReadAndClear \/ FailingCompile)
        /\ ReadsAsSpecified ]_vars

(* C17: the error slot holds the message of the most recent failing        *)
(* operation until it is read with clear=true (after which has_error() is  *)
(* false), overwritten by a later failing operation, or emptied by a later *)
(* create* call whose engine request succeeds; geterror(false) returns the *)
(* message and leaves it in place, and so does a create* call that is      *)
(* served from the cache or made without an engine configuration.          *)
C17_StickyUntilReadFailureOrSuccess ==
    [][ /\ (m_error # "" /\ m_error' # m_error)
            => (ReadAndClear \/ FailingCompile \/ SucceedingCompile)
        /\ ReadsAsSpecified ]_vars

C17_Witness ==
    /\ op.name = "geterror"
    /\ ~op.clear
    /\ op.result \in EngineMsgs
    /\ prev["t1"].kind # None
    /\ prev["t1"].outcome = op.result
    /\ last["t1"].kind # None
    /\ last["t1"].outcome \in Compiled
    /\ m_error = ""

MatrixStep == op' # op /\ op'.name = "createMatrixTransform"

(* C19: createMatrixTransform returns a non-empty handle for every matrix  *)
(* and inverse flag, and leaves the processor cache, the request and       *)
(* creation counters and the error slot unchanged.                         *)
C19_MatrixTransformFrame ==
    [][ MatrixStep
            => /\ op'.ret # EmptyHandle
               /\ UNCHANGED << colorprocmap, colorprocs_requested,
                               colorprocs_created, m_error >> ]_vars

C19_Witness ==
    /\ op.name = "createMatrixTransform"
    /\ op.ret # EmptyHandle
    /\ op.inverse
    /\ colorprocmap # EmptyMap
    /\ m_error # ""

-----------------------------------------------------------------------------
(* Properties of the registry (SpecRegistry).                              *)

(* C18: through adds, classification by name, classification by            *)
(* conversions, identify_builtin_equivalents and queries, every entry      *)
(* stays in place and its flag set only gains bits.                        *)
C18_FlagsOnlyGainBits ==
    [][ \A i \in 1..Len(colorspaces) :
           /\ i <= Len(colorspaces')
           /\ colorspaces'[i].name = colorspaces[i].name
           /\ colorspaces[i].m_flags \subseteq colorspaces'[i].m_flags ]_vars

C18_Witness ==
    /\ op.name = "examine"
    /\ op.entry = "acme_lin"
    /\ \E i \in 1..Len(colorspaces) :
          /\ colorspaces[i].name = "acme_lin"
          /\ colorspaces[i].m_flags =
                {"is_linear_response", "is_srgb_rec709"}

(* The four reference-space bits of an entry.                              *)
Masked(e) == e.m_flags \cap is_known

(* C20: for two names that resolve to two registry entries, equivalent     *)
(* returns true whenever the entries' flags masked to the four             *)
(* reference-space bits are equal and non-zero, whatever their other       *)
(* bits.                                                                   *)
C20_MaskedFlagsDecide ==
    (op.name = "equivalent" /\ config_)
        => LET i1 == find(colorspaces, resolve_live(op.a, aliases, identifies))
               i2 == find(colorspaces, resolve_live(op.b, aliases, identifies))
           IN  ( /\ i1 # 0
                 /\ i2 # 0
                 /\ Masked(colorspaces[i1]) = Masked(colorspaces[i2])
                 /\ Masked(colorspaces[i1]) # {} )
                   => op.result

-----------------------------------------------------------------------------
(* Further properties of colorconvert (SpecImage).                         *)

(* C21: whenever unpremultiply is applied to a pixel, by the generic       *)
(* kernel, the float-RGBA kernel or colorconvert(span), the colour         *)
(* channels are multiplied after the transform by the very value they were *)
(* divided by before it (the alpha read before the transform, or 1 when    *)
(* the guard skipped the division), even if the processor changed alpha.   *)
C21_PremultBySameAlpha ==
    (call.state = "done" /\ call.applied /\ call.effective)
        => \A i \in 1..Len(call.toproc) :
              LET v == RGBA(call.src0[i])
              IN  \E d \in {v[4], One} \ {0} :
                     /\ call.toproc[i] = DividedBy(v, d)
                     /\ RGBA(R[i]) = MultipliedBy(call.fromproc[i], d)

-----------------------------------------------------------------------------
(* Properties of examine (SpecExamine).                                    *)

(* C22: under every interleaving of threads calling examine on the same    *)
(* entry, the classification passes run at most once for the entry, its    *)
(* examined flag never goes back from true to false, and once it is set    *)
(* no examine changes the entry.                                           *)
C22_ExaminedOnce ==
    [][ \A i \in 1..Len(colorspaces) :
           /\ passes'[i] <= 1
           /\ colorspaces[i].examined => colorspaces'[i] = colorspaces[i] ]_vars

C22_Witness ==
    \E i \in 1..Len(colorspaces) :
        /\ passes[i] = 1
        /\ colorspaces[i].examined
        /\ colorspaces[i].m_flags # {}
        /\ \A t \in Threads :
              /\ last[t].kind = "flags"
              /\ last[t].entry = i
              /\ last[t].ret = colorspaces[i].m_flags
              /\ pc[t] = "idle"
        /\ budget = 0

(* C23: a thread that is calling out to the engine during first-time       *)
(* classification (the linearity query, the equivalence probes) does not   *)
(* hold the registry lock.                                                 *)
C23_NoLockAcrossEngineCalls ==
    \A t \in Threads :
        (pc[t] \in {"linear", "probe"} /\ config_) => m_mutex # t

(* C27: no thread waits for the reader/writer lock while it holds it       *)
(* itself.                                                                 *)
C27_NoReentrantAcquire ==
    \A t \in Threads : pc[t] \in {"error", "spin", "lock", "read"} => m_mutex # t

-----------------------------------------------------------------------------
(* Further properties of the name queries (SpecNames).                     *)

(* C24: resolve(name) returns the live configuration's canonical name when *)
(* the name is a space, alias or role known to it; else the live space the *)
(* engine identifies with the reference configuration's space of that      *)
(* name; else the discovered alias of an informal synonym, when that alias *)
(* is non-empty; else the name unchanged.                                  *)
C24_ResolvePriority ==
    op.name = "resolve"
        => LET live  == IF config_ THEN LiveGetColorSpace(op.arg) ELSE NoSpace
               ref   == IF config_ THEN InteropGetColorSpace(op.arg)
                        ELSE NoSpace
               equiv == IF ref # NoSpace
                        THEN IdentifyBuiltinColorSpace(identifies, ref)
                        ELSE NoSpace
           IN  /\ ~op.crashed
               /\ op.result = IF live # NoSpace THEN live
                              ELSE IF equiv # NoSpace THEN equiv
                              ELSE resolve_informal(op.arg, aliases)

IsDisplay(i) == i <= 12

(* C25: get_color_interop_id(cicp) returns the id of the first table       *)
(* entry, in table order, that carries a code whose primaries and transfer *)
(* equal cicp[0] and cicp[1], whatever the matrix and range; when a        *)
(* display-referred and a scene-referred entry share the two codes the     *)
(* display-referred id is returned; with no matching entry the result is   *)
(* the empty string.                                                       *)
C25_FirstMatchByPrimariesTransfer ==
    op.name = "get_color_interop_id(cicp)"
        => LET S == { i \in 1..Len(color_interop_ids) :
                        /\ color_interop_ids[i].has_cicp
                        /\ color_interop_ids[i].cicp[1] = op.arg[1]
                        /\ color_interop_ids[i].cicp[2] = op.arg[2] }
           IN  /\ (S = {} => op.result = "")
               /\ (S # {} =>
                     \E i \in S :
                        /\ op.result = color_interop_ids[i].interop_id
                        /\ \A j \in S : i <= j
                        /\ (\E j \in S : IsDisplay(j)) => IsDisplay(i))

C25_Witness ==
    /\ op.name = "get_color_interop_id(cicp)"
    /\ op.arg = << 1, 13, 9, 0 >>
    /\ op.result = "srgb_rec709_display"

-----------------------------------------------------------------------------
(* Further properties of the processor cache (SpecRace).                   *)

(* Every entry of the cache is kept with its handle by the step.           *)
EntriesKept ==
    \A k \in DOMAIN colorprocmap :
        /\ k \in DOMAIN colorprocmap'
        /\ colorprocmap'[k] = colorprocmap[k]

(* C26: between resets the cache only grows: an entry is never removed or  *)
(* replaced, so a later lookup of its key returns the same processor; no   *)
(* entry holds an empty handle; and the created counter equals the number  *)
(* of entries.                                                             *)
C26_CacheOnlyGrows ==
    [][ /\ EntriesKept
        /\ \A k \in DOMAIN colorprocmap' :
              /\ colorprocmap'[k] # EmptyHandle
              /\ findproc(colorprocmap', k) = colorprocmap'[k]
        /\ colorprocs_created' = Cardinality(DOMAIN colorprocmap') ]_vars

-----------------------------------------------------------------------------
(* Properties of construction (SpecInit).                                  *)

(* C28: a ColorConfig constructed from inline configuration text that the  *)
(* engine parses has the parsed configuration as its live configuration    *)
(* and an empty error slot: has_error() is false right after construction. *)
C28_InlineTextNoError ==
    ( /\ op.name = "constructed"
      /\ HasNewline(op.given)
      /\ op.stream_ok
      /\ op.builtin_ok
      /\ op.interop_ok
      /\ config_ )
        => /\ op.source = "stream"
           /\ ~haserror(m_error)

-----------------------------------------------------------------------------
(* Properties of the build-then-apply entry points (SpecEntry).            *)

(* C29: every build-then-apply entry point called with a null colorconfig  *)
(* substitutes the default configuration before its first use of the       *)
(* configuration, for all argument values including empty or "current"     *)
(* from/to names.                                                          *)
C29_NullConfigSubstitutedFirst ==
    ( /\ call.kind \in EntryPoints
      /\ call.state = "done"
      /\ call.colorconfig = NullColorConfig )
        => /\ call.first_use \in { DefaultColorConfig, NoUse }
           /\ ~call.crashed

-----------------------------------------------------------------------------
(* Further properties of the create* functions (Spec).                     *)

(* C30: whenever createColorProcessor, createLookTransform,                *)
(* createFileTransform or createNamedTransform returns an empty handle to  *)
(* a single caller, has_error() is true on return with a non-empty         *)
(* message, also when the instance has no engine configuration.            *)
C30_EmptyHandleHasError ==
    \A t \in Threads :
        ( /\ last[t].kind \in {"color", "look", "file", "named"}
          /\ last[t].ret = EmptyHandle )
        => haserror(last[t].err)

====
